---- MODULE Spec2Model ----
(***************************************************************************)
(* redis-enhanced: the TransactionManager of src/src/core/transaction.ts   *)
(* over a key-value transport (node-redis) and an entity repository        *)
(* (redis-om), and the PersistenceManager of src/src/core/persistence.ts   *)
(* over its own transport.  One instance of each, calls issued one after   *)
(* the other.  Every transport and repository call may fail.               *)
(***************************************************************************)
EXTENDS Integers, Sequences, FiniteSets, TLC

\* Largest version an entity of the model carries.
MaxVersion == 2

\* Entity ids are strings, modelled as sequences of characters.  "4" is a
\* proper prefix of "42".
NoId == <<>>
Ids == { <<"4">>, <<"4", "2">>, <<"7">> }

VARIABLES
    isTransactionActive,  \* TransactionManager.isTransactionActive
    isOpen,               \* nativeClient.isOpen
    store,                \* the key space: key -> stored version, 0 = no such key
    result,               \* outcome of the most recent call on the manager
    calls,                \* transport/repository calls issued by that call, in order
    lastTransition,       \* most recent successful envelope transition
    depth,                \* successful begins minus successful commits/rollbacks
    removed,              \* ids whose remove returned normally, not saved since
    injected,             \* the manager was constructed with a native client
    chain,                \* the run of saves each given the entity the last returned
    snapshot,             \* the key space at the most recent successful begin
    txSaved,              \* a save returned since the most recent successful begin
    pmIsOpen,             \* PersistenceManager: nativeClient.isOpen
    redisConfig,          \* the store's save / appendonly / appendfsync settings
    config,               \* PersistenceManager.config
    pmResult,             \* outcome of the most recent call on the PersistenceManager
    pmCalls,              \* transport calls issued by that call, in order
    lastError,            \* the error most recently built by the ErrorRegistry
    pmStatus,             \* the status most recently returned by checkPersistenceStatus
    clientIsConnected,    \* EnhancedRedisClient.isConnected
    clientOpen,           \* EnhancedRedisClient.client (redis-om) is open
    nativeOpen,           \* EnhancedRedisClient.nativeClient.isOpen
    hasTransactionManager, \* EnhancedRedisClient.transactionManager is not null
    clientResult,         \* outcome of the most recent call on the EnhancedRedisClient
    clientCalls,          \* transport and manager calls issued by that call, in order
    pending,              \* TransactionManager calls in flight, one record per caller
    pmPending             \* PersistenceManager calls in flight, one record per caller

tmVars == <<isTransactionActive, isOpen, store, result, calls, lastTransition,
            depth, removed, injected>>

histVars == <<chain, snapshot, txSaved>>

pmVars == <<pmIsOpen, redisConfig, config, pmResult, pmCalls>>

clientVars == <<clientIsConnected, clientOpen, nativeOpen, hasTransactionManager,
                clientResult, clientCalls>>

callVars == <<pending, pmPending>>

restVars == <<lastError, pmStatus, clientVars, callVars>>

vars == <<tmVars, histVars, pmVars, restVars>>

(***************************************************************************)
(* Keys and pattern scans                                                  *)
(***************************************************************************)
schemaName == <<"t">>

\* `${this.schemaName}:${entityId}`
Key(entityId) == schemaName \o <<":">> \o entityId

\* `${this.schemaName}:${entityId}*`
keyPattern(entityId) == Key(entityId) \o <<"*">>

AllKeys == { Key(id) : id \in Ids }

\* Glob matching of the transport's KEYS command: literal characters and "*".
RECURSIVE GlobMatch(_, _)
GlobMatch(p, s) ==
    IF p = <<>> THEN s = <<>>
    ELSE IF Head(p) = "*"
         THEN GlobMatch(Tail(p), s) \/ (s # <<>> /\ GlobMatch(p, Tail(s)))
         ELSE s # <<>> /\ Head(s) = Head(p) /\ GlobMatch(Tail(p), Tail(s))

\* nativeClient.keys(pattern) on key space st
keys(st, pattern) == { k \in AllKeys : st[k] # 0 /\ GlobMatch(pattern, k) }

(***************************************************************************)
(* Numbers and text: `${n}`, s.split(" "), parseInt(s)                     *)
(***************************************************************************)
DigitChars == <<"0", "1", "2", "3", "4", "5", "6", "7", "8", "9">>

IsDigit(c) == \E d \in DOMAIN DigitChars : DigitChars[d] = c

DigitValue(c) == (CHOOSE d \in DOMAIN DigitChars : DigitChars[d] = c) - 1

\* the decimal digits of n >= 0
RECURSIVE digits(_)
digits(n) ==
    IF n < 10 THEN <<DigitChars[n + 1]>>
    ELSE digits(n \div 10) \o <<DigitChars[(n % 10) + 1]>>

\* `${n}` for an integer n
toString(n) == IF n < 0 THEN <<"-">> \o digits(-n) ELSE digits(n)

\* s.split(" ")
RECURSIVE split(_)
split(s) ==
    IF \A i \in DOMAIN s : s[i] # " " THEN <<s>>
    ELSE LET i == CHOOSE i \in DOMAIN s :
                      s[i] = " " /\ \A j \in 1 .. (i - 1) : s[j] # " "
         IN  <<SubSeq(s, 1, i - 1)>> \o split(SubSeq(s, i + 1, Len(s)))

\* the value of the leading run of digits of s, after acc
RECURSIVE parseDigits(_, _)
parseDigits(s, acc) ==
    IF s = <<>> \/ ~IsDigit(Head(s)) THEN acc
    ELSE parseDigits(Tail(s), acc * 10 + DigitValue(Head(s)))

\* parseInt(s): an optional sign and the leading digits; NaN without a digit
parseInt(s) ==
    LET signed == s # <<>> /\ Head(s) \in {"-", "+"}
        body == IF signed THEN Tail(s) ELSE s
    IN  IF body = <<>> \/ ~IsDigit(Head(body))
        THEN [nan |-> TRUE, n |-> 0]
        ELSE [nan |-> FALSE,
              n |-> IF Head(s) = "-" THEN 0 - parseDigits(body, 0)
                                     ELSE parseDigits(body, 0)]

(***************************************************************************)
(* Errors                                                                  *)
(***************************************************************************)
\* The codes of the taxonomy, by the name of the enum member.
ErrorCodes ==
    { "REDIS_CONNECTION_ERROR", "REDIS_OPERATION_ERROR", "REDIS_AUTH_ERROR",
      "REDIS_TIMEOUT_ERROR",
      "PERSISTENCE_CONFIG_ERROR", "PERSISTENCE_OPERATION_ERROR",
      "PERSISTENCE_SAVE_ERROR", "PERSISTENCE_LOAD_ERROR",
      "TRANSACTION_ERROR", "TRANSACTION_COMMIT_ERROR", "TRANSACTION_ROLLBACK_ERROR",
      "ENTITY_NOT_FOUND",
      "VALIDATION_ERROR", "INVALID_CONFIG", "INVALID_PARAMETER",
      "SYSTEM_ERROR", "UNEXPECTED_ERROR" }

\* enum ErrorCode: the value of each member, a number in text whose first
\* digit is the member's category (1 Redis, 2 persistence, 3 transaction,
\* 4 validation, 5 system).
ErrorCode(name) ==
    toString(CASE name = "REDIS_CONNECTION_ERROR" -> 1001
               [] name = "REDIS_OPERATION_ERROR" -> 1002
               [] name = "REDIS_AUTH_ERROR" -> 1003
               [] name = "REDIS_TIMEOUT_ERROR" -> 1004
               [] name = "PERSISTENCE_CONFIG_ERROR" -> 2001
               [] name = "PERSISTENCE_OPERATION_ERROR" -> 2002
               [] name = "PERSISTENCE_SAVE_ERROR" -> 2003
               [] name = "PERSISTENCE_LOAD_ERROR" -> 2004
               [] name = "TRANSACTION_ERROR" -> 3001
               [] name = "TRANSACTION_COMMIT_ERROR" -> 3002
               [] name = "TRANSACTION_ROLLBACK_ERROR" -> 3003
               [] name = "ENTITY_NOT_FOUND" -> 3004
               [] name = "VALIDATION_ERROR" -> 4001
               [] name = "INVALID_CONFIG" -> 4002
               [] name = "INVALID_PARAMETER" -> 4003
               [] name = "SYSTEM_ERROR" -> 5001
               [] name = "UNEXPECTED_ERROR" -> 5002)

\* Every error of the registry reported as a server error.
getStatusCode_Always500(code) == 500

\* getStatusCode(code): by the category, parseInt(code.charAt(0))
getStatusCode(code) ==
    LET category == parseInt(SubSeq(code, 1, 1))
    IN  IF category.nan THEN 500
        ELSE CASE category.n \in {1, 2, 5} -> 500
               [] category.n = 3 ->
                      IF code = ErrorCode("ENTITY_NOT_FOUND") THEN 404 ELSE 500
               [] category.n = 4 -> 400
               [] OTHER -> 500

ErrorMessages(code) ==
    CASE code = "TRANSACTION_ERROR" -> "Transaction failed"
      [] code = "TRANSACTION_COMMIT_ERROR" -> "Failed to commit transaction"
      [] code = "TRANSACTION_ROLLBACK_ERROR" -> "Failed to rollback transaction"
      [] code = "ENTITY_NOT_FOUND" -> "Entity not found"
      [] code = "REDIS_CONNECTION_ERROR" -> "Failed to establish Redis connection"
      [] code = "REDIS_OPERATION_ERROR" -> "Redis operation failed"
      [] code = "REDIS_AUTH_ERROR" -> "Redis authentication failed"
      [] code = "REDIS_TIMEOUT_ERROR" -> "Redis operation timed out"
      [] code = "PERSISTENCE_SAVE_ERROR" -> "Failed to save data"
      [] code = "PERSISTENCE_LOAD_ERROR" -> "Failed to load data"
      [] code = "VALIDATION_ERROR" -> "Validation failed"
      [] code = "INVALID_PARAMETER" -> "Invalid parameter"
      [] code = "SYSTEM_ERROR" -> "System error occurred"
      [] code = "UNEXPECTED_ERROR" -> "An unexpected error occurred"
      [] code = "PERSISTENCE_CONFIG_ERROR" -> "Invalid persistence configuration"
      [] code = "PERSISTENCE_OPERATION_ERROR" -> "Persistence operation failed"
      [] code = "INVALID_CONFIG" -> "Invalid configuration"
      [] OTHER -> "Unknown error"

\* new Error(message): no code
PlainError(message) ==
    [code |-> "", message |-> message, detail |-> "", statusCode |-> 0]

\* a failure raised by the transport or the repository
TransportFailure == PlainError("transport failure")

\* ErrorRegistry.createError(code, details); detail is details.error.message
\* (or details.message), "" when the details carry neither
createError(code, detail) ==
    [code |-> code, message |-> ErrorMessages(code), detail |-> detail,
     statusCode |-> getStatusCode(ErrorCode(code))]

\* formatError(err).message
formatError(err) == err.message

(***************************************************************************)
(* Call log                                                                *)
(***************************************************************************)
Call(name, id, ks, ok) == [name |-> name, id |-> id, keys |-> ks, ok |-> ok]

NoResult == [op |-> "none", id |-> NoId, ok |-> TRUE, code |-> "",
             message |-> "", detail |-> "", version |-> 0]

Returned(op, id, version) ==
    [op |-> op, id |-> id, ok |-> TRUE, code |-> "", message |-> "",
     detail |-> "", version |-> version]

Raised(op, id, err) ==
    [op |-> op, id |-> id, ok |-> FALSE, code |-> err.code,
     message |-> err.message, detail |-> err.detail, version |-> 0]

(***************************************************************************)
(* Connectivity                                                            *)
(***************************************************************************)
\* A failed ping taken for a live connection.
isConnected_IgnorePing ==
    IF ~isOpen
    THEN { [ret |-> FALSE, calls |-> <<>>] }
    ELSE { [ret |-> TRUE, calls |-> <<Call("ping", NoId, {}, b)>>] : b \in BOOLEAN }

\* isConnected(): FALSE when the transport is not open or its ping fails
isConnected ==
    IF ~isOpen
    THEN { [ret |-> FALSE, calls |-> <<>>] }
    ELSE { [ret |-> TRUE, calls |-> <<Call("ping", NoId, {}, TRUE)>>],
           [ret |-> FALSE, calls |-> <<Call("ping", NoId, {}, FALSE)>>] }

\* ensureConnected(): the error it throws
NotConnected == PlainError("Client is not connected")

(***************************************************************************)
(* EntityRepository (redis-om), keyed `${schemaName}:${entityId}`          *)
(***************************************************************************)
\* repository.fetch(entityId): the stored version, 0 when the record is absent
repositoryFetch(st, entityId) == st[Key(entityId)]

\* repository.save(record) under id entityId
repositorySave(st, entityId, version) == [st EXCEPT ![Key(entityId)] = version]

\* repository.remove(entityId)
repositoryRemove(st, entityId) == [st EXCEPT ![Key(entityId)] = 0]

\* nativeClient.del(ks) that removes exactly the keys in gone
del(st, gone) == [k \in AllKeys |-> IF k \in gone THEN 0 ELSE st[k]]

(***************************************************************************)
(* fetch(entityId)                                                         *)
(***************************************************************************)
\* The empty-scan check left out.
noKeysFound_Never(ks) == FALSE

\* keys.length === 0
noKeysFound(ks) == ks = {}

\* !entity
entityAbsent(version) == version = 0

\* Every error of fetch wrapped, ENTITY_NOT_FOUND included.
fetchCatch_WrapAll(err) == createError("TRANSACTION_ERROR", formatError(err))

\* the catch block of fetch: ENTITY_NOT_FOUND is re-thrown, the rest wrapped
fetchCatch(err) ==
    IF err.code = "ENTITY_NOT_FOUND"
    THEN err
    ELSE createError("TRANSACTION_ERROR", formatError(err))

FetchRaised(err, cs) == [ok |-> FALSE, err |-> fetchCatch(err), version |-> 0, calls |-> cs]

\* The outcomes of fetch(entityId) in the current state: what it returns or
\* raises, and the calls it issued.
fetchOutcomes(entityId) ==
    UNION { IF ~c.ret
            THEN { FetchRaised(NotConnected, c.calls) }
            ELSE LET ks == keys(store, keyPattern(entityId))
                     scanFailed == c.calls \o <<Call("keys", entityId, {}, FALSE)>>
                     scanned == c.calls \o <<Call("keys", entityId, ks, TRUE)>>
                     v == repositoryFetch(store, entityId)
                 IN  { FetchRaised(TransportFailure, scanFailed) } \cup
                     ( IF noKeysFound(ks)
                       THEN { FetchRaised(createError("ENTITY_NOT_FOUND", ""), scanned) }
                       ELSE { FetchRaised(TransportFailure,
                                  scanned \o <<Call("repository.fetch", entityId, {}, FALSE)>>),
                              IF entityAbsent(v)
                              THEN FetchRaised(createError("ENTITY_NOT_FOUND", ""),
                                       scanned \o <<Call("repository.fetch", entityId, {}, TRUE)>>)
                              ELSE [ok |-> TRUE, err |-> PlainError(""), version |-> v,
                                    calls |-> scanned \o
                                        <<Call("repository.fetch", entityId, {}, TRUE)>>] } )
          : c \in isConnected }

fetch(entityId) ==
    \E o \in fetchOutcomes(entityId) :
        /\ result' = IF o.ok THEN Returned("fetch", entityId, o.version)
                             ELSE Raised("fetch", entityId, o.err)
        /\ calls' = o.calls
        /\ UNCHANGED <<isTransactionActive, isOpen, store, lastTransition, depth, removed>>

(***************************************************************************)
(* save(entity)                                                            *)
(***************************************************************************)
\* Entities handed to save: an id (or none yet) and a version (0: absent).
Entities == [entityId : Ids \cup {NoId}, version : 0 .. (MaxVersion - 1)]

\* The version started over at every save.
nextVersion_Restart(entity) == 1

\* (entity.version || 0) + 1
nextVersion(entity) == entity.version + 1

\* The id the repository saves under: the entity's own, or a newly generated one.
saveIds(entity) ==
    IF entity.entityId # NoId THEN { entity.entityId }
    ELSE { id \in Ids : store[Key(id)] = 0 }

saveOutcomes(entity) ==
    UNION { IF ~c.ret
            THEN { [ok |-> FALSE, id |-> entity.entityId, version |-> 0, st |-> store,
                    err |-> createError("TRANSACTION_ERROR", formatError(NotConnected)),
                    calls |-> c.calls] }
            ELSE { [ok |-> FALSE, id |-> entity.entityId, version |-> 0, st |-> store,
                    err |-> createError("TRANSACTION_ERROR", formatError(TransportFailure)),
                    calls |-> c.calls \o
                        <<Call("repository.save", entity.entityId, {}, FALSE)>>] } \cup
                 { [ok |-> TRUE, id |-> id, version |-> nextVersion(entity),
                    st |-> repositorySave(store, id, nextVersion(entity)),
                    err |-> PlainError(""),
                    calls |-> c.calls \o <<Call("repository.save", id, {}, TRUE)>>]
                   : id \in saveIds(entity) }
          : c \in isConnected }

\* A save that ends the open batch as a side effect.
save_ClosesEnvelope(entity) ==
    \E o \in saveOutcomes(entity) :
        /\ result' = IF o.ok THEN Returned("save", o.id, o.version)
                             ELSE Raised("save", o.id, o.err)
        /\ calls' = o.calls
        /\ store' = o.st
        /\ removed' = IF o.ok THEN removed \ {o.id} ELSE removed
        /\ isTransactionActive' = FALSE
        /\ UNCHANGED <<isOpen, lastTransition, depth>>

save(entity) ==
    \E o \in saveOutcomes(entity) :
        /\ result' = IF o.ok THEN Returned("save", o.id, o.version)
                             ELSE Raised("save", o.id, o.err)
        /\ calls' = o.calls
        /\ store' = o.st
        /\ removed' = IF o.ok THEN removed \ {o.id} ELSE removed
        /\ UNCHANGED <<isTransactionActive, isOpen, lastTransition, depth>>

(***************************************************************************)
(* remove(entityId)                                                        *)
(***************************************************************************)
\* the catch block of remove: every error is wrapped
removeCatch(err) == createError("TRANSACTION_ERROR", formatError(err))

RemoveRaised(err, st, cs) ==
    [ok |-> FALSE, err |-> removeCatch(err), st |-> st, calls |-> cs]

\* The verification result ignored.
removalIncomplete_Ignored(remaining) == FALSE

\* remainingKeys.length > 0
removalIncomplete(remaining) == remaining # {}

\* The verification scan issued without awaiting the delete.
scannedStore_Early(before, after) == before

\* The key space the verification scan reads: the one left by the awaited
\* delete and repository remove (after), not the one before them.
scannedStore(before, after) == after

\* A failed repository.remove aborting the operation.
repoRemoveErrPropagates_Yes == TRUE

\* Whether a failure of repository.remove leaves the inner try block.
repoRemoveErrPropagates == FALSE

\* Step 4: the verification scan.
removeVerify(entityId, before, st, cs) ==
    LET remaining == keys(scannedStore(before, st), keyPattern(entityId))
        scanned == cs \o <<Call("keys", entityId, remaining, TRUE)>>
    IN  { RemoveRaised(TransportFailure, st,
                       cs \o <<Call("keys", entityId, {}, FALSE)>>),
          IF removalIncomplete(remaining)
          THEN RemoveRaised(createError("TRANSACTION_ERROR",
                                "Failed to completely remove entity keys"),
                            st, scanned)
          ELSE [ok |-> TRUE, err |-> PlainError(""), st |-> st, calls |-> scanned] }

\* Step 3: the repository's own remove, best effort.
removeRepository(entityId, before, st, cs) ==
    removeVerify(entityId, before, repositoryRemove(st, entityId),
                 cs \o <<Call("repository.remove", entityId, {}, TRUE)>>)
    \cup
    ( IF repoRemoveErrPropagates
      THEN { RemoveRaised(TransportFailure, st,
                 cs \o <<Call("repository.remove", entityId, {}, FALSE)>>) }
      ELSE removeVerify(entityId, before, st,
                 cs \o <<Call("repository.remove", entityId, {}, FALSE)>>) )

\* Step 2: enumerate the keys and delete them in one batch; the transport's
\* delete may remove any part of what it was asked to.
removeKeys(entityId, cs) ==
    LET ks == keys(store, keyPattern(entityId))
        scanned == cs \o <<Call("keys", entityId, ks, TRUE)>>
    IN  { RemoveRaised(TransportFailure, store,
                       cs \o <<Call("keys", entityId, {}, FALSE)>>) }
        \cup
        ( IF Cardinality(ks) > 0
          THEN { RemoveRaised(TransportFailure, store,
                     scanned \o <<Call("del", entityId, ks, FALSE)>>) }
               \cup
               UNION { removeRepository(entityId, store, del(store, gone),
                           scanned \o <<Call("del", entityId, ks, TRUE)>>)
                       : gone \in SUBSET ks }
          ELSE removeRepository(entityId, store, store, scanned) )

\* Step 1 and the whole: ensureConnected, then fetch(entityId).
removeOutcomes(entityId) ==
    UNION { IF ~c.ret
            THEN { RemoveRaised(NotConnected, store, c.calls) }
            ELSE UNION { IF f.ok
                         THEN removeKeys(entityId, c.calls \o f.calls)
                         ELSE { RemoveRaised(f.err, store, c.calls \o f.calls) }
                         : f \in fetchOutcomes(entityId) }
          : c \in isConnected }

remove(entityId) ==
    \E o \in removeOutcomes(entityId) :
        /\ result' = IF o.ok THEN Returned("remove", entityId, 0)
                             ELSE Raised("remove", entityId, o.err)
        /\ calls' = o.calls
        /\ store' = o.st
        /\ removed' = IF o.ok THEN removed \cup {entityId} ELSE removed
        /\ UNCHANGED <<isTransactionActive, isOpen, lastTransition, depth>>

(***************************************************************************)
(* The transaction envelope                                                *)
(***************************************************************************)
\* The check for an envelope in progress left out.
alreadyInProgress_Never == {}

\* if (this.isTransactionActive) throw ...
alreadyInProgress ==
    IF isTransactionActive
    THEN { PlainError("A transaction is already in progress") }
    ELSE {}

\* The check for an active envelope left out.
validateActiveTransaction_Never == {}

\* validateActiveTransaction(): the errors it throws
validateActiveTransaction ==
    IF ~isTransactionActive
    THEN { PlainError("No active transaction to process") }
    ELSE {}

\* beginTransaction letting the error through as it is.
beginCatch_Rethrow(err) == err

\* the catch blocks of beginTransaction, commitTransaction, rollbackTransaction
beginCatch(err) == createError("TRANSACTION_ERROR", formatError(err))
commitCatch(err) == createError("TRANSACTION_COMMIT_ERROR", formatError(err))

\* A failed rollback reported with the general transaction code.
rollbackCatch_Generic(err) == createError("TRANSACTION_ERROR", formatError(err))

rollbackCatch(err) == createError("TRANSACTION_ROLLBACK_ERROR", formatError(err))

\* commitTransaction leaving the flag set.
flagAfterCommit_Stays == TRUE

\* this.isTransactionActive = true / = false
flagAfterBegin == TRUE
flagAfterCommit == FALSE
flagAfterRollback == FALSE

\* The flag cleared whenever an envelope operation throws.
EnvelopeRaised_ClearsFlag(err, cs) ==
    [ok |-> FALSE, err |-> err, active |-> FALSE, calls |-> cs]

\* an envelope operation that throws: the flag is left as it is
EnvelopeRaised(err, cs) ==
    [ok |-> FALSE, err |-> err, active |-> isTransactionActive, calls |-> cs]

EnvelopeReturned(active, cs) ==
    [ok |-> TRUE, err |-> PlainError(""), active |-> active, calls |-> cs]

beginOutcomes ==
    UNION { IF ~c.ret
            THEN { EnvelopeRaised(beginCatch(NotConnected), c.calls) }
            ELSE IF alreadyInProgress # {}
            THEN { EnvelopeRaised(beginCatch(e), c.calls) : e \in alreadyInProgress }
            ELSE { EnvelopeRaised(beginCatch(TransportFailure),
                       c.calls \o <<Call("multi", NoId, {}, FALSE)>>),
                   EnvelopeReturned(flagAfterBegin,
                       c.calls \o <<Call("multi", NoId, {}, TRUE)>>) }
          : c \in isConnected }

commitOutcomes ==
    IF validateActiveTransaction # {}
    THEN { EnvelopeRaised(commitCatch(e), <<>>) : e \in validateActiveTransaction }
    ELSE { EnvelopeRaised(commitCatch(TransportFailure),
               <<Call("exec", NoId, {}, FALSE)>>),
           EnvelopeReturned(flagAfterCommit, <<Call("exec", NoId, {}, TRUE)>>) }

rollbackOutcomes ==
    IF validateActiveTransaction # {}
    THEN { EnvelopeRaised(rollbackCatch(e), <<>>) : e \in validateActiveTransaction }
    ELSE { EnvelopeRaised(rollbackCatch(TransportFailure),
               <<Call("discard", NoId, {}, FALSE)>>),
           EnvelopeReturned(flagAfterRollback, <<Call("discard", NoId, {}, TRUE)>>) }

\* The history of the envelope: a transition counts when its call returned.
Transition(kind, ok) ==
    /\ lastTransition' = IF ok THEN kind ELSE lastTransition
    /\ depth' = IF ~ok THEN depth
                ELSE IF kind = "begin" THEN depth + 1 ELSE depth - 1

EnvelopeStep(op, kind, o) ==
    /\ result' = IF o.ok THEN Returned(op, NoId, 0) ELSE Raised(op, NoId, o.err)
    /\ calls' = o.calls
    /\ isTransactionActive' = o.active
    /\ Transition(kind, o.ok)
    /\ UNCHANGED <<isOpen, store, removed>>

beginTransaction == \E o \in beginOutcomes : EnvelopeStep("begin", "begin", o)

commitTransaction == \E o \in commitOutcomes : EnvelopeStep("commit", "commit", o)

rollbackTransaction == \E o \in rollbackOutcomes : EnvelopeStep("rollback", "rollback", o)

(***************************************************************************)
(* disconnect()                                                            *)
(***************************************************************************)
\* The error of the implicit rollback passed on as it is.
disconnectCatch_Rethrow(err) == err

\* the catch block of disconnect
disconnectCatch(err) == createError("REDIS_CONNECTION_ERROR", formatError(err))

\* if (this.nativeClient?.isOpen) await this.nativeClient.quit(); a quit that
\* fails may or may not have closed the transport.
quitOutcomes(cs) ==
    IF isOpen
    THEN { [ok |-> TRUE, err |-> PlainError(""), open |-> FALSE,
            calls |-> cs \o <<Call("quit", NoId, {}, TRUE)>>] }
         \cup
         { [ok |-> FALSE, err |-> disconnectCatch(TransportFailure), open |-> b,
            calls |-> cs \o <<Call("quit", NoId, {}, FALSE)>>] : b \in BOOLEAN }
    ELSE { [ok |-> TRUE, err |-> PlainError(""), open |-> isOpen, calls |-> cs] }

\* The transport released without the implicit rollback.
disconnectOutcomes_NoRollback ==
    { q @@ [active |-> isTransactionActive, rolledBack |-> FALSE]
      : q \in quitOutcomes(<<>>) }

\* Outcomes of disconnect: rolledBack tells whether the implicit rollback returned.
disconnectOutcomes ==
    IF isTransactionActive
    THEN UNION { IF r.ok
                 THEN { q @@ [active |-> r.active, rolledBack |-> TRUE]
                        : q \in quitOutcomes(r.calls) }
                 ELSE { [ok |-> FALSE, err |-> disconnectCatch(r.err), open |-> isOpen,
                         calls |-> r.calls, active |-> r.active, rolledBack |-> FALSE] }
                 : r \in rollbackOutcomes }
    ELSE { q @@ [active |-> isTransactionActive, rolledBack |-> FALSE]
           : q \in quitOutcomes(<<>>) }

disconnect ==
    \E o \in disconnectOutcomes :
        /\ result' = IF o.ok THEN Returned("disconnect", NoId, 0)
                             ELSE Raised("disconnect", NoId, o.err)
        /\ calls' = o.calls
        /\ isTransactionActive' = o.active
        /\ isOpen' = o.open
        /\ Transition("rollback", o.rolledBack)
        /\ UNCHANGED <<store, removed>>

(***************************************************************************)
(* Strings of the persistence settings, as sequences of characters         *)
(***************************************************************************)
yes == <<"y", "e", "s">>
no == <<"n", "o">>
always == <<"a", "l", "w", "a", "y", "s">>
everysec == <<"e", "v", "e", "r", "y", "s", "e", "c">>

\* enum PersistenceType, enum AOFSyncOption
PersistenceType == { "NONE", "RDB", "AOF" }
AOFSyncOption == { always, everysec, no }

(***************************************************************************)
(* PersistenceConfig: type, rdbOptions?.saveFrequency, aofOptions?.appendfsync *)
(* rdbOptions is "absent", "number" (saveFrequency holds it) or "NaN".     *)
(***************************************************************************)
PersistenceConfig(type, rdbOptions, saveFrequency, aofOptions, appendfsync) ==
    [type |-> type, rdbOptions |-> rdbOptions, saveFrequency |-> saveFrequency,
     aofOptions |-> aofOptions, appendfsync |-> appendfsync]

NONE == PersistenceConfig("NONE", "absent", 0, FALSE, <<>>)
RDB(saveFrequency) == PersistenceConfig("RDB", "number", saveFrequency, FALSE, <<>>)
AOF(appendfsync) == PersistenceConfig("AOF", "absent", 0, TRUE, appendfsync)
NoConfig == PersistenceConfig("", "absent", 0, FALSE, <<>>)

defaultPersistenceConfig == PersistenceConfig("NONE", "number", 3600, TRUE, everysec)

\* Snapshot intervals and sync modes handed to setPersistence.
SaveFrequencies == { 1, 60, 3600 }
BadSaveFrequencies == { 0, -5 }
bogus == <<"b", "o", "g", "u", "s">>

\* The policies the model hands to setPersistence.
Policies ==
    { NONE, PersistenceConfig("INVALID", "absent", 0, FALSE, <<>>),
      PersistenceConfig("RDB", "absent", 0, FALSE, <<>>),
      PersistenceConfig("AOF", "absent", 0, FALSE, <<>>),
      PersistenceConfig("AOF", "absent", 0, TRUE, <<>>),
      PersistenceConfig("RDB", "number", 3600, TRUE, everysec) }
    \cup { RDB(n) : n \in SaveFrequencies \cup BadSaveFrequencies }
    \cup { AOF(m) : m \in AOFSyncOption \cup {bogus} }

(***************************************************************************)
(* The store's configuration (CONFIG SET / CONFIG GET)                     *)
(***************************************************************************)
PMCall(name, key, value, ok) == [name |-> name, key |-> key, value |-> value, ok |-> ok]

\* What the store accepts in a configuration write: save is empty or pairs of
\* <seconds> <changes>; appendonly is yes/no; appendfsync is a sync mode.
redisAccepts(key, value) ==
    CASE key = "save" ->
             \/ value = <<>>
             \/ LET ts == split(value)
                IN  /\ Len(ts) % 2 = 0
                    /\ \A i \in DOMAIN ts :
                           /\ ts[i] # <<>>
                           /\ \A j \in DOMAIN ts[i] : IsDigit(ts[i][j])
                    /\ \A i \in DOMAIN ts : (i % 2 = 1) => parseInt(ts[i]).n >= 1
      [] key = "appendonly" -> value \in {yes, no}
      [] key = "appendfsync" -> value \in AOFSyncOption
      [] OTHER -> FALSE

\* nativeClient.configSet(key, value) that succeeds
configSet(rc, key, value) == [rc EXCEPT ![key] = value]

(***************************************************************************)
(* setPersistence(config)                                                  *)
(***************************************************************************)
\* Only the type validated.
validatePersistenceConfig_TypeOnly(cfg) ==
    IF cfg.type \notin PersistenceType
    THEN { createError("INVALID_CONFIG", "Invalid persistence type") }
    ELSE {}

\* validatePersistenceConfig(config): the errors it throws
validatePersistenceConfig(cfg) ==
    IF cfg.type \notin PersistenceType
    THEN { createError("INVALID_CONFIG", "Invalid persistence type") }
    ELSE IF cfg.type = "RDB" /\ (cfg.rdbOptions # "number" \/ cfg.saveFrequency = 0)
    THEN { createError("INVALID_CONFIG",
               "RDB save frequency is required when using RDB persistence") }
    ELSE IF cfg.type = "AOF" /\ (~cfg.aofOptions \/ cfg.appendfsync = <<>>)
    THEN { createError("INVALID_CONFIG",
               "AOF sync option is required when using AOF persistence") }
    ELSE {}

\* `${this.config.rdbOptions?.saveFrequency ?? 3600} 1`
saveValue(cfg) ==
    ( CASE cfg.rdbOptions = "absent" -> toString(3600)
        [] cfg.rdbOptions = "NaN" -> <<"N", "a", "N">>
        [] OTHER -> toString(cfg.saveFrequency) ) \o <<" ", "1">>

ConfigWrite(key, value) == [key |-> key, value |-> value]

\* The append-log toggle written before the snapshot interval.
persistenceWrites_AppendonlyFirst(cfg) ==
    << ConfigWrite("appendonly", IF cfg.type = "AOF" THEN yes ELSE no),
       ConfigWrite("save", IF cfg.type = "RDB" THEN saveValue(cfg) ELSE <<>>) >>
    \o ( IF cfg.type = "AOF" /\ cfg.aofOptions
         THEN << ConfigWrite("appendfsync", cfg.appendfsync) >>
         ELSE <<>> )

\* The snapshot interval left alone unless the policy is RDB.
persistenceWrites_NoClear(cfg) ==
    ( IF cfg.type = "RDB" THEN << ConfigWrite("save", saveValue(cfg)) >> ELSE <<>> )
    \o << ConfigWrite("appendonly", IF cfg.type = "AOF" THEN yes ELSE no) >>
    \o ( IF cfg.type = "AOF" /\ cfg.aofOptions
         THEN << ConfigWrite("appendfsync", cfg.appendfsync) >>
         ELSE <<>> )

\* The configuration writes of applyPersistenceConfig, in the order issued.
persistenceWrites(cfg) ==
    << ConfigWrite("save", IF cfg.type = "RDB" THEN saveValue(cfg) ELSE <<>>),
       ConfigWrite("appendonly", IF cfg.type = "AOF" THEN yes ELSE no) >>
    \o ( IF cfg.type = "AOF" /\ cfg.aofOptions
         THEN << ConfigWrite("appendfsync", cfg.appendfsync) >>
         ELSE <<>> )

\* the catch block of applyPersistenceConfig
applyCatch(err) == createError("PERSISTENCE_OPERATION_ERROR", formatError(err))

\* Every error of setPersistence wrapped again.
setPersistenceCatch_WrapAll(err) ==
    createError("PERSISTENCE_CONFIG_ERROR", formatError(err))

\* the catch block of setPersistence: a BaseError is re-thrown, the rest wrapped
setPersistenceCatch(err) ==
    IF err.code # "" THEN err
    ELSE createError("PERSISTENCE_CONFIG_ERROR", formatError(err))

\* Each write is awaited: the next is issued when this one has succeeded.
RECURSIVE applyWrites(_, _, _)
applyWrites(ws, rc, cs) ==
    IF ws = <<>>
    THEN { [ok |-> TRUE, err |-> PlainError(""), rc |-> rc, calls |-> cs] }
    ELSE LET w == Head(ws)
         IN  { [ok |-> FALSE, err |-> applyCatch(TransportFailure), rc |-> rc,
                calls |-> cs \o <<PMCall("configSet", w.key, w.value, FALSE)>>] }
             \cup
             ( IF redisAccepts(w.key, w.value)
               THEN applyWrites(Tail(ws), configSet(rc, w.key, w.value),
                        cs \o <<PMCall("configSet", w.key, w.value, TRUE)>>)
               ELSE {} )

\* The writes started over once after a failed write.
applyPersistenceConfig_Retry(cfg) ==
    IF ~pmIsOpen
    THEN { [ok |-> FALSE, err |-> applyCatch(PlainError("Redis client is not connected")),
            rc |-> redisConfig, calls |-> <<>>] }
    ELSE UNION { IF a.ok THEN {a}
                 ELSE applyWrites(persistenceWrites(cfg), a.rc, a.calls)
                 : a \in applyWrites(persistenceWrites(cfg), redisConfig, <<>>) }

\* The writes issued without looking at the transport.
applyPersistenceConfig_Unguarded(cfg) ==
    applyWrites(persistenceWrites(cfg), redisConfig, <<>>)

\* applyPersistenceConfig() with this.config = cfg
applyPersistenceConfig(cfg) ==
    IF ~pmIsOpen
    THEN { [ok |-> FALSE, err |-> applyCatch(PlainError("Redis client is not connected")),
            rc |-> redisConfig, calls |-> <<>>] }
    ELSE applyWrites(persistenceWrites(cfg), redisConfig, <<>>)

setPersistenceOutcomes(cfg) ==
    IF validatePersistenceConfig(cfg) # {}
    THEN { [ok |-> FALSE, err |-> setPersistenceCatch(e), rc |-> redisConfig,
            calls |-> <<>>, config |-> config] : e \in validatePersistenceConfig(cfg) }
    ELSE { [ok |-> a.ok, err |-> IF a.ok THEN a.err ELSE setPersistenceCatch(a.err),
            rc |-> a.rc, calls |-> a.calls, config |-> cfg]
           : a \in applyPersistenceConfig(cfg) }

PMReturned(op, cfg) ==
    [op |-> op, ok |-> TRUE, code |-> "", message |-> "", detail |-> "", config |-> cfg]

PMRaised(op, cfg, err) ==
    [op |-> op, ok |-> FALSE, code |-> err.code, message |-> err.message,
     detail |-> err.detail, config |-> cfg]

setPersistence(cfg) ==
    \E o \in setPersistenceOutcomes(cfg) :
        /\ pmResult' = IF o.ok THEN PMReturned("setPersistence", cfg)
                               ELSE PMRaised("setPersistence", cfg, o.err)
        /\ pmCalls' = o.calls
        /\ redisConfig' = o.rc
        /\ config' = o.config
        /\ UNCHANGED pmIsOpen

(***************************************************************************)
(* getCurrentConfig()                                                      *)
(***************************************************************************)
\* The snapshot interval never taken as set.
rdbEnabled_Never(saveSetting) == FALSE

\* save.save && save.save !== ""
rdbEnabled(saveSetting) == saveSetting # <<>>

\* The append-log toggle looked at before the snapshot interval.
currentConfig_AofFirst(rc) ==
    IF rc.appendonly = yes
    THEN AOF(rc.appendfsync)
    ELSE IF rdbEnabled(rc.save)
    THEN LET f == parseInt(split(rc.save)[1])
         IN  PersistenceConfig("RDB", IF f.nan THEN "NaN" ELSE "number", f.n, FALSE, <<>>)
    ELSE NONE

\* The policy getCurrentConfig derives from the three settings it read.
currentConfig(rc) ==
    IF rdbEnabled(rc.save)
    THEN LET f == parseInt(split(rc.save)[1])
         IN  PersistenceConfig("RDB", IF f.nan THEN "NaN" ELSE "number", f.n, FALSE, <<>>)
    ELSE IF rc.appendonly = yes
    THEN AOF(rc.appendfsync)
    ELSE NONE

\* the catch block of getCurrentConfig
getCurrentConfigCatch(err) == createError("PERSISTENCE_OPERATION_ERROR", formatError(err))

ConfigKeys == <<"save", "appendonly", "appendfsync">>

\* The three reads are issued together (Promise.all); any of them may fail.
getCurrentConfigOutcomes ==
    IF ~pmIsOpen
    THEN { [ok |-> FALSE, config |-> NoConfig, calls |-> <<>>,
            err |-> getCurrentConfigCatch(PlainError("Redis client is not connected"))] }
    ELSE { LET cs == [i \in DOMAIN ConfigKeys |->
                         PMCall("configGet", ConfigKeys[i], <<>>, ConfigKeys[i] \notin failed)]
           IN  IF failed = {}
               THEN [ok |-> TRUE, config |-> currentConfig(redisConfig), calls |-> cs,
                     err |-> PlainError("")]
               ELSE [ok |-> FALSE, config |-> NoConfig, calls |-> cs,
                     err |-> getCurrentConfigCatch(TransportFailure)]
           : failed \in SUBSET { ConfigKeys[i] : i \in DOMAIN ConfigKeys } }

getCurrentConfig ==
    \E o \in getCurrentConfigOutcomes :
        /\ pmResult' = IF o.ok THEN PMReturned("getCurrentConfig", o.config)
                               ELSE PMRaised("getCurrentConfig", o.config, o.err)
        /\ pmCalls' = o.calls
        /\ UNCHANGED <<pmIsOpen, redisConfig, config>>

(***************************************************************************)
(* PersistenceManager.checkPersistenceStatus()                             *)
(*                                                                         *)
(* The status text is a sequence of tokens: a field name is one token,     *)
(* every other character is a token of its own.                            *)
(***************************************************************************)
LF == "\n"
CR == "\r"

StatusFields == <<"rdb_bgsave_in_progress", "aof_rewrite_in_progress",
                  "rdb_last_save_time", "aof_last_rewrite_time">>

\* s.split(separator), separator one character
RECURSIVE splitBy(_, _)
splitBy(s, separator) ==
    IF \A i \in DOMAIN s : s[i] # separator THEN <<s>>
    ELSE LET i == CHOOSE i \in DOMAIN s :
                      s[i] = separator /\ \A j \in 1 .. (i - 1) : s[j] # separator
         IN  <<SubSeq(s, 1, i - 1)>> \o splitBy(SubSeq(s, i + 1, Len(s)), separator)

\* const status = { ... } before any line is read
NoStatus ==
    [rdbSaveInProgress |-> FALSE, aofRewriteInProgress |-> FALSE,
     lastRdbSaveTime |-> [nan |-> FALSE, n |-> 0],
     lastAofRewriteTime |-> [nan |-> FALSE, n |-> 0]]

\* the body of the loop: const [key, value] = line.split(":"); switch (key)
statusLine(status, line) ==
    LET parts == splitBy(line, ":")
        key == parts[1]
        defined == Len(parts) >= 2
        isOne == defined /\ parts[2] = <<"1">>
        number == IF defined THEN parseInt(parts[2]) ELSE [nan |-> TRUE, n |-> 0]
    IN  CASE key = <<StatusFields[1]>> -> [status EXCEPT !.rdbSaveInProgress = isOne]
          [] key = <<StatusFields[2]>> -> [status EXCEPT !.aofRewriteInProgress = isOne]
          [] key = <<StatusFields[3]>> -> [status EXCEPT !.lastRdbSaveTime = number]
          [] key = <<StatusFields[4]>> -> [status EXCEPT !.lastAofRewriteTime = number]
          [] OTHER -> status

\* for (const line of lines)
RECURSIVE statusLines(_, _)
statusLines(status, lines) ==
    IF lines = <<>> THEN status
    ELSE statusLines(statusLine(status, Head(lines)), Tail(lines))

\* info.split("\n") and the loop over the lines
parseStatus(info) == statusLines(NoStatus, splitBy(info, LF))

\* The lines of the store's persistence section: any of the four fields may
\* be missing, in either order, with or without lines the manager does not
\* know.
FieldValues == [1 .. 2 -> {"absent", "0", "1"}]

TimeValues == [3 .. 4 -> {<<>>, toString(1234567890)}]

fieldLines(flags, times) ==
    LET line(i) == IF i <= 2
                   THEN IF flags[i] = "absent" THEN <<>>
                        ELSE <<<<StatusFields[i], ":", flags[i]>>>>
                   ELSE IF times[i] = <<>> THEN <<>>
                        ELSE <<<<StatusFields[i], ":">> \o times[i]>>
    IN  line(1) \o line(2) \o line(3) \o line(4)

Reverse(q) == [i \in DOMAIN q |-> q[Len(q) + 1 - i]]

OtherLines == { <<>>, <<<<"#", " ", "Persistence">>, <<"loading", ":", "0">>>> }

\* Every line followed by the line terminator.
RECURSIVE joinLines(_, _)
joinLines(lines, terminator) ==
    IF lines = <<>> THEN <<>>
    ELSE Head(lines) \o terminator \o joinLines(Tail(lines), terminator)

\* What INFO persistence may answer.  The store ends its lines with CR LF;
\* the unit tests' transport answers with LF alone.
InfoTexts ==
    { joinLines(other \o (IF reversed THEN Reverse(fieldLines(flags, times))
                                      ELSE fieldLines(flags, times)),
                terminator) :
        flags \in FieldValues, times \in TimeValues, other \in OtherLines,
        reversed \in BOOLEAN, terminator \in {<<LF>>, <<CR, LF>>} }

checkStatusCatch(err) == createError("PERSISTENCE_OPERATION_ERROR", formatError(err))

\* The answer of the unit tests' transport.
TestInfoText ==
    <<"#", " ", "Persistence", LF,
      StatusFields[1], ":", "0", LF,
      StatusFields[2], ":", "0", LF,
      StatusFields[3], ":">> \o toString(1234567890) \o <<LF,
      StatusFields[4], ":">> \o toString(1234567891)

\* checkPersistenceStatus() when the store may answer any text of infos
checkPersistenceStatusOutcomes(infos) ==
    IF ~pmIsOpen
    THEN { [ok |-> FALSE, status |-> NoStatus, calls |-> <<>>,
            err |-> checkStatusCatch(PlainError("Redis client is not connected"))] }
    ELSE { [ok |-> TRUE, status |-> parseStatus(info),
            calls |-> <<PMCall("info", "persistence", info, TRUE)>>,
            err |-> PlainError("")] : info \in infos }
         \cup
         { [ok |-> FALSE, status |-> NoStatus,
            calls |-> <<PMCall("info", "persistence", <<>>, FALSE)>>,
            err |-> checkStatusCatch(TransportFailure)] }

checkPersistenceStatusOn(infos) ==
    \E o \in checkPersistenceStatusOutcomes(infos) :
        /\ pmResult' = IF o.ok THEN PMReturned("checkPersistenceStatus", NoConfig)
                               ELSE PMRaised("checkPersistenceStatus", NoConfig, o.err)
        /\ pmStatus' = o.status
        /\ pmCalls' = o.calls
        /\ UNCHANGED <<pmIsOpen, redisConfig, config>>

checkPersistenceStatus == checkPersistenceStatusOn(InfoTexts)

(***************************************************************************)
(* PersistenceManager.disconnect()                                         *)
(***************************************************************************)
\* quit issued whether or not the transport is open.
pmQuitGuard_Always == TRUE

\* if (this.nativeClient?.isOpen)
pmQuitGuard == pmIsOpen

\* a quit that fails may or may not have closed the transport
pmDisconnectOutcomes ==
    IF pmQuitGuard
    THEN { [ok |-> TRUE, err |-> PlainError(""), open |-> FALSE,
            calls |-> <<PMCall("quit", "", <<>>, TRUE)>>] }
         \cup
         { [ok |-> FALSE, err |-> disconnectCatch(TransportFailure), open |-> b,
            calls |-> <<PMCall("quit", "", <<>>, FALSE)>>] : b \in {pmIsOpen, FALSE} }
    ELSE { [ok |-> TRUE, err |-> PlainError(""), open |-> pmIsOpen, calls |-> <<>>] }

pmDisconnect ==
    \E o \in pmDisconnectOutcomes :
        /\ pmResult' = IF o.ok THEN PMReturned("disconnect", NoConfig)
                               ELSE PMRaised("disconnect", NoConfig, o.err)
        /\ pmCalls' = o.calls
        /\ pmIsOpen' = o.open
        /\ UNCHANGED <<redisConfig, config>>

\* The PersistenceManager's transport opens: the connect() its constructor
\* starts without awaiting, or the caller's own connect.
pmTransportConnect ==
    /\ ~pmIsOpen
    /\ pmIsOpen' = TRUE
    /\ UNCHANGED <<redisConfig, config, pmResult, pmCalls>>

(***************************************************************************)
(* EnhancedRedisClient                                                     *)
(***************************************************************************)
ClientCall(name, ok) == [name |-> name, ok |-> ok]

NoClientResult ==
    [op |-> "none", ok |-> TRUE, ret |-> FALSE, code |-> "", message |-> "",
     detail |-> "", statusCode |-> 0]

\* ret is the value ping() returns; the sections getServerInfo() returns are
\* not kept.
ClientReturned(op, ret) ==
    [op |-> op, ok |-> TRUE, ret |-> ret, code |-> "", message |-> "",
     detail |-> "", statusCode |-> 0]

ClientRaised(op, err) ==
    [op |-> op, ok |-> FALSE, ret |-> FALSE, code |-> err.code, message |-> err.message,
     detail |-> err.detail, statusCode |-> err.statusCode]

\* the error of the guards: Client not connected. Call connect() first.
clientNotConnected ==
    createError("REDIS_CONNECTION_ERROR", "Client not connected. Call connect() first.")

\* the catch blocks of connect and disconnect
clientConnectionCatch(err) == createError("REDIS_CONNECTION_ERROR", formatError(err))

\* A failure of an operation reported as a connection failure.
clientOperationCatch_AsConnection(err) ==
    createError("REDIS_CONNECTION_ERROR", formatError(err))

\* the catch blocks of getServerInfo and flushDb
clientOperationCatch(err) == createError("REDIS_OPERATION_ERROR", formatError(err))

\* The flag set as soon as connect() is entered.
connectedAfterConnect_Eager(ok) == TRUE

\* this.isConnected = true, reached when both connections are made
connectedAfterConnect(ok) == IF ok THEN TRUE ELSE clientIsConnected

\* this.isConnected = false, reached when every step of disconnect succeeded
connectedAfterDisconnect(ok) == IF ok THEN FALSE ELSE clientIsConnected

\* client.open(url): nothing to do on an open redis-om client
openOutcomes == IF clientOpen THEN {TRUE} ELSE BOOLEAN

\* nativeClient.connect(): refused on a client that is already open
nativeConnectOutcomes == IF nativeOpen THEN {FALSE} ELSE BOOLEAN

\* connect(): both connections are started together (Promise.all); on
\* success the flag is set and a TransactionManager without an injected
\* transport is created.
connect ==
    \E opened \in openOutcomes, connected \in nativeConnectOutcomes :
        LET ok == opened /\ connected
        IN  /\ clientOpen' = (clientOpen \/ opened)
            /\ nativeOpen' = (nativeOpen \/ connected)
            /\ clientIsConnected' = connectedAfterConnect(ok)
            /\ clientCalls' = <<ClientCall("client.open", opened),
                               ClientCall("nativeClient.connect", connected)>>
            /\ clientResult' = IF ok THEN ClientReturned("connect", FALSE)
                                     ELSE ClientRaised("connect",
                                              clientConnectionCatch(TransportFailure))
            /\ hasTransactionManager' = (hasTransactionManager \/ ok)
            /\ IF ok
               THEN /\ isTransactionActive' = FALSE
                    /\ injected' = FALSE
                    /\ isOpen' = FALSE
                    /\ result' = NoResult
                    /\ calls' = <<>>
                    /\ lastTransition' = "none"
                    /\ depth' = 0
                    /\ UNCHANGED <<store, removed>>
               ELSE UNCHANGED tmVars

\* client.close(): closes an open redis-om client, or fails
closeOutcomes == IF clientOpen THEN BOOLEAN ELSE {TRUE}

\* nativeClient.quit(): refused on a client that is not open
nativeQuitOutcomes == IF nativeOpen THEN BOOLEAN ELSE {FALSE}

\* The last step of disconnect(): both connections are closed together.
clientClose(cs) ==
    \E closed \in closeOutcomes, quitted \in nativeQuitOutcomes :
        LET ok == closed /\ quitted
        IN  /\ clientOpen' = (clientOpen /\ ~closed)
            /\ nativeOpen' = (nativeOpen /\ ~quitted)
            /\ clientIsConnected' = connectedAfterDisconnect(ok)
            /\ clientCalls' = cs \o <<ClientCall("client.close", closed),
                                     ClientCall("nativeClient.quit", quitted)>>
            /\ clientResult' = IF ok THEN ClientReturned("disconnect", FALSE)
                                     ELSE ClientRaised("disconnect",
                                              clientConnectionCatch(TransportFailure))

\* disconnect() left through its catch block by a manager's error
clientDisconnectRaised(cs, message) ==
    /\ clientResult' = ClientRaised("disconnect",
                           clientConnectionCatch(PlainError(message)))
    /\ clientCalls' = cs
    /\ clientIsConnected' = connectedAfterDisconnect(FALSE)
    /\ UNCHANGED <<clientOpen, nativeOpen>>

\* disconnect(): the PersistenceManager, then the TransactionManager if there
\* is one, then both connections.
clientDisconnect ==
    /\ pmDisconnect
    /\ UNCHANGED <<hasTransactionManager, injected>>
    /\ IF ~pmResult'.ok
       THEN /\ clientDisconnectRaised(<<ClientCall("persistence.disconnect", FALSE)>>,
                                      pmResult'.message)
            /\ UNCHANGED <<isTransactionActive, isOpen, store, result, calls,
                           lastTransition, depth, removed>>
       ELSE IF ~hasTransactionManager
       THEN /\ clientClose(<<ClientCall("persistence.disconnect", TRUE)>>)
            /\ UNCHANGED <<isTransactionActive, isOpen, store, result, calls,
                           lastTransition, depth, removed>>
       ELSE /\ disconnect
            /\ IF ~result'.ok
               THEN clientDisconnectRaised(
                        <<ClientCall("persistence.disconnect", TRUE),
                          ClientCall("transactionManager.disconnect", FALSE)>>,
                        result'.message)
               ELSE clientClose(<<ClientCall("persistence.disconnect", TRUE),
                                  ClientCall("transactionManager.disconnect", TRUE)>>)

\* ping(): false without a call when not connected, and false for any failure
ping ==
    /\ IF ~clientIsConnected
       THEN /\ clientResult' = ClientReturned("ping", FALSE)
            /\ clientCalls' = <<>>
       ELSE \E pong \in (IF nativeOpen THEN BOOLEAN ELSE {FALSE}) :
                /\ clientResult' = ClientReturned("ping", pong)
                /\ clientCalls' = <<ClientCall("nativeClient.ping", pong)>>
    /\ UNCHANGED <<clientIsConnected, clientOpen, nativeOpen, hasTransactionManager>>

\* getServerInfo() and flushDb(): the guard's error is thrown inside the try
\* block, so the catch block wraps it like any other failure.
clientOperationOutcomes(command) ==
    IF ~clientIsConnected
    THEN { [ok |-> FALSE, calls |-> <<>>, err |-> clientOperationCatch(clientNotConnected)] }
    ELSE { [ok |-> FALSE, calls |-> <<ClientCall(command, FALSE)>>,
            err |-> clientOperationCatch(TransportFailure)] }
         \cup
         ( IF nativeOpen
           THEN { [ok |-> TRUE, calls |-> <<ClientCall(command, TRUE)>>,
                   err |-> PlainError("")] }
           ELSE {} )

getServerInfo ==
    \E o \in clientOperationOutcomes("nativeClient.info") :
        /\ clientResult' = IF o.ok THEN ClientReturned("getServerInfo", FALSE)
                                  ELSE ClientRaised("getServerInfo", o.err)
        /\ clientCalls' = o.calls
        /\ UNCHANGED <<clientIsConnected, clientOpen, nativeOpen, hasTransactionManager>>

\* flushDb(): empties the key space
flushDb ==
    \E o \in clientOperationOutcomes("nativeClient.flushDb") :
        /\ clientResult' = IF o.ok THEN ClientReturned("flushDb", FALSE)
                                  ELSE ClientRaised("flushDb", o.err)
        /\ clientCalls' = o.calls
        /\ store' = IF o.ok THEN [k \in AllKeys |-> 0] ELSE store
        /\ UNCHANGED <<clientIsConnected, clientOpen, nativeOpen, hasTransactionManager>>

(***************************************************************************)
(* Envelope calls in flight.  An async method runs up to its first await   *)
(* in one step, and from the completion of the awaited call to its end in  *)
(* another; steps of other callers may come in between.  In the            *)
(* specifications of this section calls is the log of every transport call *)
(* issued so far, in issue order.                                          *)
(***************************************************************************)
Callers == {"a", "b"}

\* A caller: the calls it has yet to make (todo), the call it has in flight
\* (op, awaiting), the outcome of the transport call that call awaits (ok),
\* the number of envelopes begun when the call started (since) and the
\* outcome of its last finished call (res).
Task(todo, op, awaiting, ok, since, res) ==
    [todo |-> todo, op |-> op, awaiting |-> awaiting, ok |-> ok, since |-> since,
     res |-> res]

NoTask == Task(<<>>, "none", FALSE, TRUE, 0, NoResult)

\* the envelopes begun so far: the calls of multi that returned
Begun(cs) == Cardinality({ i \in DOMAIN cs : cs[i].name = "multi" /\ cs[i].ok })

Ready(c, op) ==
    /\ ~pending[c].awaiting
    /\ pending[c].todo # <<>>
    /\ Head(pending[c].todo) = op

InFlight(c, op) == pending[c].awaiting /\ pending[c].op = op

\* the method reaches its await: the transport calls cs have been issued
Suspend(c, op, ok, cs) ==
    /\ pending' = [pending EXCEPT ![c] =
                       Task(Tail(@.todo), op, TRUE, ok, Begun(calls), @.res)]
    /\ calls' = calls \o cs
    /\ UNCHANGED <<isTransactionActive, isOpen, store, result, lastTransition,
                   depth, removed>>

\* the method runs to its end with outcome o
Settle(c, todo, op, o) ==
    LET res == IF o.ok THEN Returned(op, NoId, 0) ELSE Raised(op, NoId, o.err)
    IN  /\ result' = res
        /\ pending' = [pending EXCEPT ![c] = Task(todo, "none", FALSE, TRUE, @.since, res)]
        /\ calls' = calls \o o.calls
        /\ isTransactionActive' = o.active
        /\ Transition(op, o.ok)
        /\ UNCHANGED <<isOpen, store, removed>>

\* beginTransaction up to `await this.ensureConnected()`
beginTransactionCall(c) ==
    /\ Ready(c, "begin")
    /\ \E k \in isConnected : Suspend(c, "begin", k.ret, k.calls)

\* beginTransaction after the await: the flag is tested, multi() is called and
\* the flag is set without another await in between
beginResumeOutcomes(connected) ==
    IF ~connected
    THEN { EnvelopeRaised(beginCatch(NotConnected), <<>>) }
    ELSE IF alreadyInProgress # {}
    THEN { EnvelopeRaised(beginCatch(e), <<>>) : e \in alreadyInProgress }
    ELSE { EnvelopeRaised(beginCatch(TransportFailure),
               <<Call("multi", NoId, {}, FALSE)>>),
           EnvelopeReturned(flagAfterBegin, <<Call("multi", NoId, {}, TRUE)>>) }

beginTransactionResume(c) ==
    /\ InFlight(c, "begin")
    /\ \E o \in beginResumeOutcomes(pending[c].ok) :
           Settle(c, pending[c].todo, "begin", o)

\* commitTransaction up to `await this.nativeClient.exec()`: the flag is
\* tested before the await; a call that fails the test ends here
commitTransactionCall(c) ==
    /\ Ready(c, "commit")
    /\ IF validateActiveTransaction # {}
       THEN \E e \in validateActiveTransaction :
                Settle(c, Tail(pending[c].todo), "commit",
                       EnvelopeRaised(commitCatch(e), <<>>))
       ELSE \E ok \in BOOLEAN :
                Suspend(c, "commit", ok, <<Call("exec", NoId, {}, ok)>>)

\* commitTransaction after the await: the flag is cleared when exec returned
commitTransactionResume(c) ==
    /\ InFlight(c, "commit")
    /\ Settle(c, pending[c].todo, "commit",
              IF pending[c].ok THEN EnvelopeReturned(flagAfterCommit, <<>>)
              ELSE EnvelopeRaised(commitCatch(TransportFailure), <<>>))

\* rollbackTransaction up to `await this.nativeClient.discard()`
rollbackTransactionCall(c) ==
    /\ Ready(c, "rollback")
    /\ IF validateActiveTransaction # {}
       THEN \E e \in validateActiveTransaction :
                Settle(c, Tail(pending[c].todo), "rollback",
                       EnvelopeRaised(rollbackCatch(e), <<>>))
       ELSE \E ok \in BOOLEAN :
                Suspend(c, "rollback", ok, <<Call("discard", NoId, {}, ok)>>)

\* rollbackTransaction after the await
rollbackTransactionResume(c) ==
    /\ InFlight(c, "rollback")
    /\ Settle(c, pending[c].todo, "rollback",
              IF pending[c].ok THEN EnvelopeReturned(flagAfterRollback, <<>>)
              ELSE EnvelopeRaised(rollbackCatch(TransportFailure), <<>>))

(***************************************************************************)
(* PersistenceManager calls in flight.  setPersistence suspends at every   *)
(* awaited configSet; getCurrentConfig issues its three configGet together *)
(* and suspends once.  The store handles the commands of the one transport *)
(* in the order they were issued.  In the specifications of this section   *)
(* pmCalls is the log of every transport call issued so far.               *)
(***************************************************************************)
\* A call a caller has yet to make.
PMRequest(op, cfg) == [op |-> op, cfg |-> cfg]

\* A caller: the calls it has yet to make (todo), the call it has in flight
\* (op with argument cfg, awaiting), the outcome of the transport call it
\* awaits (ok), the number of writes it has issued (step), the settings its
\* reads returned (seen) and the outcome of its last finished call (res).
PMTask(todo, op, cfg, awaiting, ok, step, seen, res) ==
    [todo |-> todo, op |-> op, cfg |-> cfg, awaiting |-> awaiting, ok |-> ok,
     step |-> step, seen |-> seen, res |-> res]

\* no reads have returned
NothingSeen == [save |-> <<>>, appendonly |-> <<>>, appendfsync |-> <<>>]

NoPMTask ==
    PMTask(<<>>, "none", NoConfig, FALSE, TRUE, 0, NothingSeen,
           PMReturned("none", NoConfig))

PMReady(c, op) ==
    /\ ~pmPending[c].awaiting
    /\ pmPending[c].todo # <<>>
    /\ Head(pmPending[c].todo).op = op

PMInFlight(c, op) == pmPending[c].awaiting /\ pmPending[c].op = op

\* the call runs to its end with outcome res
PMSettle(c, todo, res) ==
    /\ pmResult' = res
    /\ pmPending' = [pmPending EXCEPT ![c] =
                         PMTask(todo, "none", NoConfig, FALSE, TRUE, 0, @.seen, res)]
    /\ UNCHANGED <<pmIsOpen, redisConfig, pmCalls>>

\* `await this.nativeClient.configSet(key, value)`: the n-th write of the call
issueWrite(c, todo, cfg, w, n) ==
    \E ok \in { b \in BOOLEAN : b => redisAccepts(w.key, w.value) } :
        /\ pmCalls' = pmCalls \o <<PMCall("configSet", w.key, w.value, ok)>>
        /\ redisConfig' = IF ok THEN configSet(redisConfig, w.key, w.value)
                                ELSE redisConfig
        /\ pmPending' = [pmPending EXCEPT ![c] =
                             PMTask(todo, "setPersistence", cfg, TRUE, ok, n, @.seen, @.res)]
        /\ UNCHANGED <<pmResult, pmIsOpen>>

\* Each call applying the policy it was handed.
appliedConfig_OwnArgument(c) == pmPending[c].cfg

\* applyPersistenceConfig reads this.config afresh after every await
appliedConfig(c) == config

\* setPersistence up to the first awaited write: the policy is validated and
\* stored in this.config, then applyPersistenceConfig issues the save write
setPersistenceCall(c) ==
    /\ PMReady(c, "setPersistence")
    /\ LET cfg == Head(pmPending[c].todo).cfg
           rest == Tail(pmPending[c].todo)
       IN  IF validatePersistenceConfig(cfg) # {}
           THEN /\ \E e \in validatePersistenceConfig(cfg) :
                       PMSettle(c, rest, PMRaised("setPersistence", cfg, setPersistenceCatch(e)))
                /\ UNCHANGED config
           ELSE /\ config' = cfg
                /\ IF ~pmIsOpen
                   THEN PMSettle(c, rest,
                            PMRaised("setPersistence", cfg,
                                setPersistenceCatch(applyCatch(
                                    PlainError("Redis client is not connected")))))
                   ELSE issueWrite(c, rest, cfg, persistenceWrites(cfg)[1], 1)

\* setPersistence after an awaited write: the next write, from this.config as
\* it is now, or the end of the call
setPersistenceResume(c) ==
    /\ PMInFlight(c, "setPersistence")
    /\ UNCHANGED config
    /\ LET t == pmPending[c]
           ws == persistenceWrites(appliedConfig(c))
       IN  IF ~t.ok
           THEN PMSettle(c, t.todo,
                    PMRaised("setPersistence", t.cfg,
                        setPersistenceCatch(applyCatch(TransportFailure))))
           ELSE IF t.step + 1 <= Len(ws)
           THEN issueWrite(c, t.todo, t.cfg, ws[t.step + 1], t.step + 1)
           ELSE PMSettle(c, t.todo, PMReturned("setPersistence", t.cfg))

\* getCurrentConfig up to `await Promise.all([...])`: the three reads are
\* issued together and see the settings the store holds at that moment
getCurrentConfigCall(c) ==
    /\ PMReady(c, "getCurrentConfig")
    /\ UNCHANGED config
    /\ LET rest == Tail(pmPending[c].todo)
       IN  IF ~pmIsOpen
           THEN PMSettle(c, rest,
                    PMRaised("getCurrentConfig", NoConfig,
                        getCurrentConfigCatch(PlainError("Redis client is not connected"))))
           ELSE \E failed \in SUBSET { ConfigKeys[i] : i \in DOMAIN ConfigKeys } :
                    /\ pmCalls' = pmCalls \o
                           [i \in DOMAIN ConfigKeys |->
                               PMCall("configGet", ConfigKeys[i], <<>>,
                                      ConfigKeys[i] \notin failed)]
                    /\ pmPending' = [pmPending EXCEPT ![c] =
                           PMTask(rest, "getCurrentConfig", NoConfig, TRUE, failed = {},
                                  0, redisConfig, @.res)]
                    /\ UNCHANGED <<pmResult, pmIsOpen, redisConfig>>

\* getCurrentConfig after the await: the policy is derived from what was read
getCurrentConfigResume(c) ==
    /\ PMInFlight(c, "getCurrentConfig")
    /\ UNCHANGED config
    /\ LET t == pmPending[c]
       IN  PMSettle(c, t.todo,
               IF t.ok THEN PMReturned("getCurrentConfig", currentConfig(t.seen))
               ELSE PMRaised("getCurrentConfig", NoConfig,
                        getCurrentConfigCatch(TransportFailure)))

(***************************************************************************)
(* Initial states                                                          *)
(***************************************************************************)
\* A TransactionManager after construction: with a native client handed in
\* (open, owned by the caller), or with the one the constructor creates and
\* never connects.
TMInit(nativeClient) ==
    /\ isTransactionActive = FALSE
    /\ injected = nativeClient
    /\ isOpen = nativeClient
    /\ store = [k \in AllKeys |-> 0]
    /\ result = NoResult
    /\ calls = <<>>
    /\ lastTransition = "none"
    /\ depth = 0
    /\ removed = {}

NoChain == [first |-> NoId, id |-> NoId, version |-> 0, n |-> 0]

HistInit ==
    /\ chain = NoChain
    /\ snapshot = [k \in AllKeys |-> 0]
    /\ txSaved = FALSE

\* The settings the persistence tests start from.
StartRedisConfig == [save |-> <<>>, appendonly |-> no, appendfsync |-> everysec]

\* Settings a store may hold before the PersistenceManager touches it.
RedisConfigs ==
    [save : { <<>>, toString(3600) \o <<" ", "1">>,
              toString(900) \o <<" ", "1", " ">> \o toString(300) \o <<" ", "1", "0">> },
     appendonly : {yes, no},
     appendfsync : AOFSyncOption]

\* A PersistenceManager after construction.
PMInit(open, rc) ==
    /\ pmIsOpen = open
    /\ redisConfig = rc
    /\ config = defaultPersistenceConfig
    /\ pmResult = PMReturned("none", NoConfig)
    /\ pmCalls = <<>>

\* An EnhancedRedisClient after construction.
ClientInit ==
    /\ clientIsConnected = FALSE
    /\ clientOpen = FALSE
    /\ nativeOpen = FALSE
    /\ hasTransactionManager = FALSE
    /\ clientResult = NoClientResult
    /\ clientCalls = <<>>

\* No error has been built.
NoError == [code |-> "", message |-> "", detail |-> "", statusCode |-> 0]

QuietInit ==
    /\ lastError = NoError
    /\ pmStatus = NoStatus
    /\ ClientInit

\* no call is in flight and no caller has a call to make
RestInit ==
    /\ QuietInit
    /\ pending = [c \in Callers |-> NoTask]
    /\ pmPending = [c \in Callers |-> NoPMTask]

Init ==
    /\ \E nativeClient \in BOOLEAN : TMInit(nativeClient)
    /\ HistInit
    /\ PMInit(TRUE, StartRedisConfig)
    /\ RestInit

(***************************************************************************)
(* The transport is owned by the caller, who may open it again.            *)
(***************************************************************************)
TransportConnect ==
    /\ injected
    /\ ~isOpen
    /\ isOpen' = TRUE
    /\ UNCHANGED <<isTransactionActive, store, result, calls, lastTransition,
                   depth, removed>>

\* The owner of an injected transport closes it, or the connection is lost.
TransportClose ==
    /\ injected
    /\ isOpen
    /\ isOpen' = FALSE
    /\ UNCHANGED <<isTransactionActive, store, result, calls, lastTransition,
                   depth, removed>>

(***************************************************************************)
(* The TransactionManager on its own                                       *)
(***************************************************************************)
Next ==
    \/ (\E entity \in Entities : save(entity)) /\ UNCHANGED <<injected, histVars, pmVars, restVars>>
    \/ (\E entityId \in Ids : fetch(entityId)) /\ UNCHANGED <<injected, histVars, pmVars, restVars>>
    \/ (\E entityId \in Ids : remove(entityId)) /\ UNCHANGED <<injected, histVars, pmVars, restVars>>
    \/ beginTransaction /\ UNCHANGED <<injected, histVars, pmVars, restVars>>
    \/ commitTransaction /\ UNCHANGED <<injected, histVars, pmVars, restVars>>
    \/ rollbackTransaction /\ UNCHANGED <<injected, histVars, pmVars, restVars>>
    \/ disconnect /\ UNCHANGED <<injected, histVars, pmVars, restVars>>
    \/ TransportConnect /\ UNCHANGED <<injected, histVars, pmVars, restVars>>

Spec == Init /\ [][Next]_vars

(***************************************************************************)
(* Saves in a row: chain follows the entity handed from one save to the    *)
(* next.  A save of an entity with no version starts a chain; a save of    *)
(* the entity the chain's last save returned extends it; any other         *)
(* successful save ends it.                                                *)
(***************************************************************************)
chainAfter(entity, r) ==
    IF ~r.ok THEN chain
    ELSE IF entity.version = 0
    THEN [first |-> r.id, id |-> r.id, version |-> r.version, n |-> 1]
    ELSE IF chain.n > 0 /\ entity = [entityId |-> chain.id, version |-> chain.version]
    THEN [first |-> chain.first, id |-> r.id, version |-> r.version, n |-> chain.n + 1]
    ELSE NoChain

ChainNext ==
    \/ \E entity \in Entities :
           /\ save(entity)
           /\ chain' = chainAfter(entity, result')
           /\ UNCHANGED <<injected, snapshot, txSaved, pmVars, restVars>>
    \/ (\E entityId \in Ids : fetch(entityId)) /\ UNCHANGED <<injected, histVars, pmVars, restVars>>
    \/ (\E entityId \in Ids : remove(entityId)) /\ UNCHANGED <<injected, histVars, pmVars, restVars>>

ChainSpec == Init /\ [][ChainNext]_vars

(***************************************************************************)
(* Saves inside an envelope: snapshot is the key space when the envelope   *)
(* was opened, txSaved whether a save has returned since.                  *)
(***************************************************************************)
TxNext ==
    \/ /\ beginTransaction
       /\ snapshot' = IF result'.ok THEN store ELSE snapshot
       /\ txSaved' = IF result'.ok THEN FALSE ELSE txSaved
       /\ UNCHANGED <<injected, chain, pmVars, restVars>>
    \/ \E entity \in Entities :
           /\ save(entity)
           /\ txSaved' = (txSaved \/ (result'.ok /\ isTransactionActive))
           /\ UNCHANGED <<injected, chain, snapshot, pmVars, restVars>>
    \/ (\E entityId \in Ids : fetch(entityId)) /\ UNCHANGED <<injected, histVars, pmVars, restVars>>
    \/ commitTransaction /\ UNCHANGED <<injected, histVars, pmVars, restVars>>
    \/ rollbackTransaction /\ UNCHANGED <<injected, histVars, pmVars, restVars>>

TxSpec == Init /\ [][TxNext]_vars

(***************************************************************************)
(* The PersistenceManager on its own, over any prior settings of the store *)
(***************************************************************************)
PersistenceInit ==
    /\ TMInit(TRUE)
    /\ HistInit
    /\ \E open \in BOOLEAN, rc \in RedisConfigs : PMInit(open, rc)
    /\ RestInit

PersistenceNext ==
    \/ (\E cfg \in Policies : setPersistence(cfg)) /\ UNCHANGED <<tmVars, histVars, restVars>>
    \/ getCurrentConfig /\ UNCHANGED <<tmVars, histVars, restVars>>
    \/ pmDisconnect /\ UNCHANGED <<tmVars, histVars, restVars>>
    \/ pmTransportConnect /\ UNCHANGED <<tmVars, histVars, restVars>>

PersistenceSpec == PersistenceInit /\ [][PersistenceNext]_vars

(***************************************************************************)
(* The envelope of the TransactionManager, with reads of an empty store    *)
(***************************************************************************)
EnvelopeNext ==
    \/ beginTransaction /\ UNCHANGED <<injected, histVars, pmVars, restVars>>
    \/ commitTransaction /\ UNCHANGED <<injected, histVars, pmVars, restVars>>
    \/ rollbackTransaction /\ UNCHANGED <<injected, histVars, pmVars, restVars>>
    \/ (\E entityId \in Ids : fetch(entityId))
          /\ UNCHANGED <<injected, histVars, pmVars, restVars>>
    \/ disconnect /\ UNCHANGED <<injected, histVars, pmVars, restVars>>
    \/ TransportConnect /\ UNCHANGED <<injected, histVars, pmVars, restVars>>

EnvelopeSpec == Init /\ [][EnvelopeNext]_vars

(***************************************************************************)
(* Both managers' connections                                              *)
(***************************************************************************)
LifecycleNext ==
    \/ beginTransaction /\ UNCHANGED <<injected, histVars, pmVars, restVars>>
    \/ disconnect /\ UNCHANGED <<injected, histVars, pmVars, restVars>>
    \/ TransportConnect /\ UNCHANGED <<injected, histVars, pmVars, restVars>>
    \/ getCurrentConfig /\ UNCHANGED <<tmVars, histVars, restVars>>
    \/ pmDisconnect /\ UNCHANGED <<tmVars, histVars, restVars>>
    \/ pmTransportConnect /\ UNCHANGED <<tmVars, histVars, restVars>>

LifecycleSpec == Init /\ [][LifecycleNext]_vars

(***************************************************************************)
(* The EnhancedRedisClient: its PersistenceManager connects by itself in   *)
(* the background, its TransactionManager exists once connect() succeeded. *)
(***************************************************************************)
ClientSpecInit ==
    /\ TMInit(FALSE)
    /\ HistInit
    /\ PMInit(FALSE, StartRedisConfig)
    /\ RestInit

ClientNext ==
    \/ connect /\ UNCHANGED <<histVars, pmVars, lastError, pmStatus, callVars>>
    \/ clientDisconnect /\ UNCHANGED <<histVars, lastError, pmStatus, callVars>>
    \/ ping /\ UNCHANGED <<tmVars, histVars, pmVars, lastError, pmStatus, callVars>>
    \/ getServerInfo /\ UNCHANGED <<tmVars, histVars, pmVars, lastError, pmStatus, callVars>>
    \/ flushDb /\ UNCHANGED <<isTransactionActive, isOpen, result, calls, lastTransition,
                              depth, removed, injected, histVars, pmVars, lastError,
                              pmStatus, callVars>>
    \/ pmTransportConnect /\ UNCHANGED <<tmVars, histVars, restVars>>

ClientSpec == ClientSpecInit /\ [][ClientNext]_vars

(***************************************************************************)
(* Every operation of the two managers.  The managers share no state, so a *)
(* behaviour exercises one of them: the TransactionManager while the       *)
(* PersistenceManager has not been called, or the other way round.  The    *)
(* status query is answered as in the unit tests.                          *)
(***************************************************************************)
TransactionManagerIdle == result = NoResult

PersistenceManagerIdle == pmResult = PMReturned("none", NoConfig)

OperationsNext ==
    \/ PersistenceManagerIdle /\ (\E entity \in Entities : save(entity))
          /\ UNCHANGED <<injected, histVars, pmVars, restVars>>
    \/ PersistenceManagerIdle /\ (\E entityId \in Ids : fetch(entityId))
          /\ UNCHANGED <<injected, histVars, pmVars, restVars>>
    \/ PersistenceManagerIdle /\ (\E entityId \in Ids : remove(entityId))
          /\ UNCHANGED <<injected, histVars, pmVars, restVars>>
    \/ PersistenceManagerIdle /\ beginTransaction
          /\ UNCHANGED <<injected, histVars, pmVars, restVars>>
    \/ PersistenceManagerIdle /\ commitTransaction
          /\ UNCHANGED <<injected, histVars, pmVars, restVars>>
    \/ PersistenceManagerIdle /\ rollbackTransaction
          /\ UNCHANGED <<injected, histVars, pmVars, restVars>>
    \/ PersistenceManagerIdle /\ disconnect
          /\ UNCHANGED <<injected, histVars, pmVars, restVars>>
    \/ PersistenceManagerIdle /\ TransportConnect
          /\ UNCHANGED <<injected, histVars, pmVars, restVars>>
    \/ TransactionManagerIdle /\ (\E cfg \in Policies : setPersistence(cfg))
          /\ UNCHANGED <<tmVars, histVars, restVars>>
    \/ TransactionManagerIdle /\ getCurrentConfig
          /\ UNCHANGED <<tmVars, histVars, restVars>>
    \/ TransactionManagerIdle /\ checkPersistenceStatusOn({TestInfoText})
          /\ UNCHANGED <<tmVars, histVars, lastError, clientVars, callVars>>
    \/ TransactionManagerIdle /\ pmDisconnect
          /\ UNCHANGED <<tmVars, histVars, restVars>>
    \/ TransactionManagerIdle /\ pmTransportConnect
          /\ UNCHANGED <<tmVars, histVars, restVars>>

OperationsInit ==
    /\ TMInit(TRUE)
    /\ HistInit
    /\ PMInit(TRUE, StartRedisConfig)
    /\ RestInit

OperationsSpec == OperationsInit /\ [][OperationsNext]_vars

(***************************************************************************)
(* The status query of the PersistenceManager                              *)
(***************************************************************************)
StatusNext ==
    \/ checkPersistenceStatus /\ UNCHANGED <<tmVars, histVars, lastError, clientVars, callVars>>
    \/ pmDisconnect /\ UNCHANGED <<tmVars, histVars, restVars>>
    \/ pmTransportConnect /\ UNCHANGED <<tmVars, histVars, restVars>>

StatusInit ==
    /\ TMInit(TRUE)
    /\ HistInit
    /\ PMInit(TRUE, StartRedisConfig)
    /\ RestInit

StatusSpec == StatusInit /\ [][StatusNext]_vars

(***************************************************************************)
(* A PersistenceManager that creates its own transport: the transport is   *)
(* closed when the constructor returns and opens some time later.          *)
(***************************************************************************)
OwnTransportNext ==
    \/ (\E cfg \in Policies : setPersistence(cfg)) /\ UNCHANGED <<tmVars, histVars, restVars>>
    \/ getCurrentConfig /\ UNCHANGED <<tmVars, histVars, restVars>>
    \/ checkPersistenceStatusOn({TestInfoText})
          /\ UNCHANGED <<tmVars, histVars, lastError, clientVars, callVars>>
    \/ pmDisconnect /\ UNCHANGED <<tmVars, histVars, restVars>>
    \/ pmTransportConnect /\ UNCHANGED <<tmVars, histVars, restVars>>

OwnTransportInit ==
    /\ TMInit(TRUE)
    /\ HistInit
    /\ PMInit(FALSE, StartRedisConfig)
    /\ RestInit

OwnTransportSpec == OwnTransportInit /\ [][OwnTransportNext]_vars

(***************************************************************************)
(* Two callers that each call beginTransaction once on an IDLE manager     *)
(***************************************************************************)
BeginRaceNext ==
    \/ (\E c \in Callers : beginTransactionCall(c))
          /\ UNCHANGED <<injected, histVars, pmVars, lastError, pmStatus, clientVars, pmPending>>
    \/ (\E c \in Callers : beginTransactionResume(c))
          /\ UNCHANGED <<injected, histVars, pmVars, lastError, pmStatus, clientVars, pmPending>>
    \/ TransportConnect
          /\ UNCHANGED <<injected, histVars, pmVars, restVars>>
    \/ TransportClose
          /\ UNCHANGED <<injected, histVars, pmVars, restVars>>

BeginRaceInit ==
    /\ \E nativeClient \in BOOLEAN : TMInit(nativeClient)
    /\ HistInit
    /\ PMInit(TRUE, StartRedisConfig)
    /\ QuietInit
    /\ pending = [c \in Callers |-> Task(<<"begin">>, "none", FALSE, TRUE, 0, NoResult)]
    /\ pmPending = [c \in Callers |-> NoPMTask]

BeginRaceSpec == BeginRaceInit /\ [][BeginRaceNext]_vars

(***************************************************************************)
(* Two callers that each make two envelope calls, one after the other, on  *)
(* one manager; the calls of the two callers overlap in every way          *)
(***************************************************************************)
EnvelopeOps == {"begin", "commit", "rollback"}

Scripts == { <<first, second>> : first \in EnvelopeOps, second \in EnvelopeOps }

EnvelopeRaceNext ==
    \/ (\E c \in Callers : beginTransactionCall(c))
          /\ UNCHANGED <<injected, histVars, pmVars, lastError, pmStatus, clientVars, pmPending>>
    \/ (\E c \in Callers : beginTransactionResume(c))
          /\ UNCHANGED <<injected, histVars, pmVars, lastError, pmStatus, clientVars, pmPending>>
    \/ (\E c \in Callers : commitTransactionCall(c))
          /\ UNCHANGED <<injected, histVars, pmVars, lastError, pmStatus, clientVars, pmPending>>
    \/ (\E c \in Callers : commitTransactionResume(c))
          /\ UNCHANGED <<injected, histVars, pmVars, lastError, pmStatus, clientVars, pmPending>>
    \/ (\E c \in Callers : rollbackTransactionCall(c))
          /\ UNCHANGED <<injected, histVars, pmVars, lastError, pmStatus, clientVars, pmPending>>
    \/ (\E c \in Callers : rollbackTransactionResume(c))
          /\ UNCHANGED <<injected, histVars, pmVars, lastError, pmStatus, clientVars, pmPending>>

EnvelopeRaceInit ==
    /\ TMInit(TRUE)
    /\ HistInit
    /\ PMInit(TRUE, StartRedisConfig)
    /\ QuietInit
    /\ \E script \in [Callers -> Scripts] :
           pending = [c \in Callers |-> Task(script[c], "none", FALSE, TRUE, 0, NoResult)]
    /\ pmPending = [c \in Callers |-> NoPMTask]

EnvelopeRaceSpec == EnvelopeRaceInit /\ [][EnvelopeRaceNext]_vars

(***************************************************************************)
(* Two callers of one PersistenceManager whose calls overlap in every way  *)
(***************************************************************************)
RacePolicies == { NONE, RDB(60), AOF(always), AOF(everysec) }

SetRequests == { PMRequest("setPersistence", cfg) : cfg \in RacePolicies }

GetRequest == PMRequest("getCurrentConfig", NoConfig)

PersistenceRaceNext ==
    \/ (\E c \in Callers : setPersistenceCall(c))
          /\ UNCHANGED <<tmVars, histVars, lastError, pmStatus, clientVars, pending>>
    \/ (\E c \in Callers : setPersistenceResume(c))
          /\ UNCHANGED <<tmVars, histVars, lastError, pmStatus, clientVars, pending>>
    \/ (\E c \in Callers : getCurrentConfigCall(c))
          /\ UNCHANGED <<tmVars, histVars, lastError, pmStatus, clientVars, pending>>
    \/ (\E c \in Callers : getCurrentConfigResume(c))
          /\ UNCHANGED <<tmVars, histVars, lastError, pmStatus, clientVars, pending>>

\* caller a makes the calls of script[1], caller b those of script[2]
PersistenceRaceInit(scripts) ==
    /\ TMInit(TRUE)
    /\ HistInit
    /\ PMInit(TRUE, StartRedisConfig)
    /\ QuietInit
    /\ pending = [c \in Callers |-> NoTask]
    /\ \E script \in scripts :
           pmPending = [c \in Callers |->
               PMTask(IF c = "a" THEN script[1] ELSE script[2], "none", NoConfig,
                      FALSE, TRUE, 0, NothingSeen, PMReturned("none", NoConfig))]

\* a sets one policy and then another; b reads the policy at any moment
ReadRaceScripts ==
    { << <<old, new>>, <<GetRequest>> >> : old \in SetRequests, new \in SetRequests }

ReadRaceInit == PersistenceRaceInit(ReadRaceScripts)

ReadRaceSpec == ReadRaceInit /\ [][PersistenceRaceNext]_vars

\* a and b each set a policy; b then reads the policy
WriteRaceScripts ==
    { << <<first>>, <<second, GetRequest>> >> :
          first \in SetRequests, second \in SetRequests }

WriteRaceInit == PersistenceRaceInit(WriteRaceScripts)

WriteRaceSpec == WriteRaceInit /\ [][PersistenceRaceNext]_vars

(***************************************************************************)
(* The ErrorRegistry on its own: createError for every code of the         *)
(* taxonomy, with the details the managers attach.                         *)
(***************************************************************************)
Details == { "", "begin", "commit", "rollback", "disconnect", "applyConfig",
             "getConfig", "checkStatus" }

CreateError ==
    /\ \E code \in ErrorCodes, detail \in Details :
           lastError' = createError(code, detail)
    /\ UNCHANGED <<tmVars, histVars, pmVars, pmStatus, clientVars, callVars>>

RegistryNext == CreateError

RegistrySpec == Init /\ [][RegistryNext]_vars

(***************************************************************************)
(* Reading the call log                                                    *)
(***************************************************************************)
Count(cs, name) == Cardinality({ i \in DOMAIN cs : cs[i].name = name })

AllOk(cs) == \A i \in DOMAIN cs : cs[i].ok

\* The connectivity check of the call passed.
PingOk(cs) == Len(cs) >= 1 /\ cs[1].name = "ping" /\ cs[1].ok

IsPrefix(a, b) == Len(a) <= Len(b) /\ \A i \in DOMAIN a : a[i] = b[i]

CallNames(cs) == [i \in DOMAIN cs |-> cs[i].name]

\* In the log of a remove, the verification scan is the scan that follows
\* repository.remove.
IsVerification(cs, i) ==
    i \in DOMAIN cs /\ i > 1 /\ cs[i].name = "keys" /\ cs[i - 1].name = "repository.remove"

(***************************************************************************)
(* C1: the envelope is ACTIVE exactly when the most recent successful      *)
(* envelope transition was a beginTransaction, and successful begins minus *)
(* successful commits/rollbacks is always 0 or 1.                          *)
(***************************************************************************)
C1_EnvelopeInvariant ==
    /\ isTransactionActive <=> (lastTransition = "begin")
    /\ depth \in {0, 1}
    /\ isTransactionActive <=> (depth = 1)

\* disconnect rolled an ACTIVE envelope back and then failed to quit
C1_Witness ==
    /\ result.op = "disconnect" /\ ~result.ok
    /\ lastTransition = "rollback" /\ ~isTransactionActive
    /\ Count(calls, "discard") = 1

(***************************************************************************)
(* C2 (as stated): beginTransaction while the envelope is ACTIVE raises    *)
(* TRANSACTION_ERROR whose detail carries "A transaction is already in     *)
(* progress".                                                              *)
(***************************************************************************)
C2_Original ==
    [][(isTransactionActive /\ beginTransaction) =>
          /\ result'.code = "TRANSACTION_ERROR"
          /\ result'.detail = "A transaction is already in progress"]_vars

(***************************************************************************)
(* C2 (amended): beginTransaction while the envelope is ACTIVE raises      *)
(* TRANSACTION_ERROR; its detail carries "A transaction is already in      *)
(* progress" when the connectivity check passes and "Client is not         *)
(* connected" when it does not.                                            *)
(***************************************************************************)
C2_Amended ==
    [][(isTransactionActive /\ beginTransaction) =>
          /\ ~result'.ok
          /\ result'.code = "TRANSACTION_ERROR"
          /\ result'.message = "Transaction failed"
          /\ PingOk(calls') => result'.detail = "A transaction is already in progress"
          /\ ~PingOk(calls') => result'.detail = "Client is not connected"
          /\ isTransactionActive']_vars

C2_Witness ==
    /\ result.op = "begin" /\ result.code = "TRANSACTION_ERROR"
    /\ result.detail = "A transaction is already in progress"
    /\ isTransactionActive

(***************************************************************************)
(* C3 (as stated): commitTransaction while IDLE raises TRANSACTION_ERROR   *)
(* and rollbackTransaction while IDLE raises TRANSACTION_ERROR.            *)
(***************************************************************************)
C3_Original ==
    [][/\ (~isTransactionActive /\ commitTransaction) =>
              result'.code = "TRANSACTION_ERROR"
       /\ (~isTransactionActive /\ rollbackTransaction) =>
              result'.code = "TRANSACTION_ERROR"]_vars

(***************************************************************************)
(* C3 (amended): commitTransaction while IDLE raises                       *)
(* TRANSACTION_COMMIT_ERROR and rollbackTransaction while IDLE raises      *)
(* TRANSACTION_ROLLBACK_ERROR, each with the detail "No active transaction *)
(* to process".                                                            *)
(***************************************************************************)
C3_Amended ==
    [][/\ (~isTransactionActive /\ commitTransaction) =>
              /\ ~result'.ok
              /\ result'.code = "TRANSACTION_COMMIT_ERROR"
              /\ result'.detail = "No active transaction to process"
       /\ (~isTransactionActive /\ rollbackTransaction) =>
              /\ ~result'.ok
              /\ result'.code = "TRANSACTION_ROLLBACK_ERROR"
              /\ result'.detail = "No active transaction to process"]_vars

C3_Witness ==
    /\ result.op = "rollback" /\ result.code = "TRANSACTION_ROLLBACK_ERROR"
    /\ result.detail = "No active transaction to process"
    /\ ~isTransactionActive

(***************************************************************************)
(* C4: from an ACTIVE envelope commitTransaction invokes execute-batch     *)
(* exactly once and rollbackTransaction invokes discard-batch exactly      *)
(* once; when the primitive returns, the call completes without error and  *)
(* the envelope is IDLE, and a beginTransaction that follows (its          *)
(* connectivity check passing) reaches begin-batch and succeeds when that  *)
(* returns.                                                                *)
(***************************************************************************)
C4_CommitRollback ==
    [][/\ (isTransactionActive /\ commitTransaction) =>
              /\ calls' \in { <<Call("exec", NoId, {}, b)>> : b \in BOOLEAN }
              /\ calls'[1].ok => (result'.ok /\ ~isTransactionActive')
       /\ (isTransactionActive /\ rollbackTransaction) =>
              /\ calls' \in { <<Call("discard", NoId, {}, b)>> : b \in BOOLEAN }
              /\ calls'[1].ok => (result'.ok /\ ~isTransactionActive')
       /\ (result.op \in {"commit", "rollback"} /\ result.ok /\ beginTransaction
             /\ PingOk(calls')) =>
              /\ Count(calls', "multi") = 1
              /\ AllOk(calls') => (result'.ok /\ isTransactionActive')]_vars

\* a commit from ACTIVE whose execute-batch returned
C4_Witness ==
    /\ result.op = "commit" /\ result.ok
    /\ calls = <<Call("exec", NoId, {}, TRUE)>>
    /\ ~isTransactionActive /\ lastTransition = "commit"

(***************************************************************************)
(* C5: remove(id) returns normally only if its verification scan, issued   *)
(* after the delete step, returned zero keys; if that scan returns any key *)
(* remove raises TRANSACTION_ERROR, whatever the delete and the            *)
(* repository remove did.                                                  *)
(***************************************************************************)
C5_VerifiedDelete ==
    result.op = "remove" =>
        /\ result.ok =>
              /\ IsVerification(calls, Len(calls))
              /\ calls[Len(calls)].ok
              /\ calls[Len(calls)].keys = {}
              /\ keys(store, keyPattern(result.id)) = {}
        /\ \A i \in DOMAIN calls :
              /\ IsVerification(calls, i) =>
                    \A j \in DOMAIN calls : calls[j].name = "del" => j < i
              /\ (IsVerification(calls, i) /\ calls[i].ok /\ calls[i].keys # {}) =>
                    (~result.ok /\ result.code = "TRANSACTION_ERROR")

\* a delete that returned but left a key behind, caught by the verification
C5_Witness ==
    /\ result.op = "remove" /\ ~result.ok
    /\ \E i \in DOMAIN calls : calls[i].name = "del" /\ calls[i].ok
    /\ IsVerification(calls, Len(calls))
    /\ calls[Len(calls)].ok /\ calls[Len(calls)].keys # {}

(***************************************************************************)
(* C6 (as stated): for every id whose remove returned normally, with no    *)
(* save of that id since, a scan of "<schemaName>:<id>*" returns the empty *)
(* set and fetch(id) raises ENTITY_NOT_FOUND (here: whenever every call    *)
(* the fetch issues returns).                                              *)
(***************************************************************************)
C6_RemovedStaysGone ==
    \A id \in removed :
        /\ keys(store, keyPattern(id)) = {}
        /\ (result.op = "fetch" /\ result.id = id /\ PingOk(calls) /\ AllOk(calls)) =>
              result.code = "ENTITY_NOT_FOUND"

(***************************************************************************)
(* C7 (as stated): remove(id) on an id with no keys in the store raises    *)
(* the existence check's ENTITY_NOT_FOUND unchanged, and performs no       *)
(* delete and no repository remove.                                        *)
(***************************************************************************)
C7_NotFoundUnchanged ==
    ( /\ result.op = "remove"
      /\ AllOk(calls)
      /\ Count(calls, "keys") = 1
      /\ calls[Len(calls)].name = "keys"
      /\ calls[Len(calls)].keys = {} ) =>
        /\ result.code = "ENTITY_NOT_FOUND"
        /\ Count(calls, "del") = 0
        /\ Count(calls, "repository.remove") = 0

(***************************************************************************)
(* C8: within remove(id) the calls occur strictly in the order existence   *)
(* check (fetch), key enumeration, one delete of exactly the enumerated    *)
(* keys (skipped when the enumeration is empty), repository remove,        *)
(* verification scan; each has returned before the next is issued, and the *)
(* verification scan reads the key space the delete has left.              *)
(***************************************************************************)
RemoveOrder ==
    <<"ping", "ping", "keys", "repository.fetch", "keys", "del",
      "repository.remove", "keys">>

RemoveOrderNoDelete ==
    <<"ping", "ping", "keys", "repository.fetch", "keys",
      "repository.remove", "keys">>

C8_RemoveOrder ==
    result.op = "remove" =>
        /\ \/ IsPrefix(CallNames(calls), RemoveOrder)
           \/ IsPrefix(CallNames(calls), RemoveOrderNoDelete)
        /\ \A i \in DOMAIN calls :
              /\ (i < Len(calls) /\ calls[i].name # "repository.remove") => calls[i].ok
              /\ calls[i].name = "del" =>
                    /\ calls[i - 1].name = "keys"
                    /\ calls[i].keys = calls[i - 1].keys
                    /\ calls[i].keys # {}
              /\ (calls[i].name = "repository.remove" /\ calls[i - 1].name = "keys") =>
                    calls[i - 1].keys = {}
              /\ (IsVerification(calls, i) /\ calls[i].ok) =>
                    calls[i].keys = keys(store, keyPattern(result.id))

\* all five steps ran, the delete leaving a key for the verification to see
C8_Witness ==
    /\ result.op = "remove"
    /\ CallNames(calls) = RemoveOrder
    /\ AllOk(calls)
    /\ calls[Len(calls)].keys # calls[6].keys
    /\ calls[Len(calls)].keys # {}

(***************************************************************************)
(* C9: a failure of the repository's own remove never aborts remove(id):   *)
(* once the key-level delete is done, the verification scan is issued and  *)
(* remove returns normally if and only if that scan is empty, whether the  *)
(* repository remove succeeded or raised.                                  *)
(***************************************************************************)
C9_BestEffortRepositoryRemove ==
    result.op = "remove" =>
        \A i \in DOMAIN calls :
            calls[i].name = "repository.remove" =>
                /\ i + 1 = Len(calls)
                /\ IsVerification(calls, i + 1)
                /\ result.ok <=> (calls[i + 1].ok /\ calls[i + 1].keys = {})

\* the repository remove raised and remove still returned normally
C9_Witness ==
    /\ result.op = "remove" /\ result.ok
    /\ \E i \in DOMAIN calls : calls[i].name = "repository.remove" /\ ~calls[i].ok

(***************************************************************************)
(* C10: fetch(id) whose key scan returns no key raises ENTITY_NOT_FOUND    *)
(* and makes no call to the repository.                                    *)
(***************************************************************************)
C10_FetchNoKeys ==
    result.op = "fetch" =>
        /\ (\E i \in DOMAIN calls :
               calls[i].name = "keys" /\ calls[i].ok /\ calls[i].keys = {}) =>
              /\ ~result.ok
              /\ result.code = "ENTITY_NOT_FOUND"
              /\ Count(calls, "repository.fetch") = 0
        /\ (PingOk(calls) /\ AllOk(calls) /\ keys(store, keyPattern(result.id)) = {}) =>
              result.code = "ENTITY_NOT_FOUND"

\* fetch of an id while the key space holds nothing at all
C10_Witness ==
    /\ result.op = "fetch" /\ result.code = "ENTITY_NOT_FOUND"
    /\ \A k \in AllKeys : store[k] = 0
    /\ Count(calls, "keys") = 1
    /\ Count(calls, "repository.fetch") = 0

C12_VersionChain ==
    (chain.n >= 1) =>
        /\ chain.version = chain.n
        /\ chain.id = chain.first
        /\ chain.id # NoId

\* the second save of a chain has just returned
C12_Witness ==
    /\ chain.n >= 2
    /\ result.op = "save" /\ result.ok
    /\ result.version = chain.n /\ result.id = chain.first

(***************************************************************************)
(* C13: over every sequence of saves, stale copies included, the version   *)
(* stored for an entityId never decreases, and a successful save never     *)
(* produces the version an earlier successful save of that entityId        *)
(* produced (the one now stored).                                          *)
(***************************************************************************)
C13_VersionInvariant ==
    [][/\ \A id \in Ids :
              (store[Key(id)] # 0 /\ store'[Key(id)] # 0) =>
                  store'[Key(id)] >= store[Key(id)]
       /\ ((\E entity \in Entities : save(entity)) /\ result'.ok) =>
              result'.version # store[Key(result'.id)]]_vars

(***************************************************************************)
(* C14: when beginTransaction returned, then one or more saves returned,   *)
(* then rollbackTransaction returned, the key space is what it was when    *)
(* the envelope was opened.                                                *)
(***************************************************************************)
C14_RollbackAtomic ==
    (result.op = "rollback" /\ result.ok /\ txSaved) => store = snapshot

(***************************************************************************)
(* C15: a manager constructed without a native client does not fail save   *)
(* or fetch with "Client is not connected".                                *)
(***************************************************************************)
C15_ConnectedWithoutInjection ==
    (~injected /\ result.op \in {"save", "fetch"}) =>
        result.detail # "Client is not connected"

(***************************************************************************)
(* C16: disconnect on an ACTIVE envelope issues discard first and quit     *)
(* only after discard has returned; when disconnect returns normally the   *)
(* envelope is IDLE, the transport is closed, and the calls were discard   *)
(* then quit.                                                              *)
(***************************************************************************)
C16_DisconnectRollsBackFirst ==
    [][(isTransactionActive /\ disconnect) =>
          /\ calls' # <<>> /\ calls'[1].name = "discard"
          /\ \A i \in DOMAIN calls' :
                 calls'[i].name = "quit" => (i = 2 /\ calls'[1].ok)
          /\ ~calls'[1].ok => (isTransactionActive' /\ isOpen' = isOpen)
          /\ result'.ok =>
                 /\ ~isTransactionActive' /\ ~isOpen'
                 /\ CallNames(calls') = <<"discard", "quit">>
                 /\ AllOk(calls')
                 /\ lastTransition' = "rollback"]_vars

C16_Witness ==
    /\ result.op = "disconnect" /\ result.ok
    /\ CallNames(calls) = <<"discard", "quit">>
    /\ ~isTransactionActive /\ ~isOpen /\ lastTransition = "rollback"

(***************************************************************************)
(* C17: disconnect of either manager, issued when its transport is already *)
(* closed (and the envelope IDLE), issues no transport call, raises no     *)
(* error and changes no state, however often it is repeated.               *)
(***************************************************************************)
C17_DisconnectIdempotent ==
    [][/\ (~isOpen /\ ~isTransactionActive /\ disconnect) =>
              /\ calls' = <<>> /\ result'.ok
              /\ UNCHANGED <<isTransactionActive, isOpen, store, lastTransition, depth>>
       /\ (~pmIsOpen /\ pmDisconnect) =>
              /\ pmCalls' = <<>> /\ pmResult'.ok
              /\ UNCHANGED <<pmIsOpen, redisConfig, config>>]_vars

\* both managers have been disconnected again after their transports closed
C17_Witness ==
    /\ injected /\ ~isOpen /\ ~isTransactionActive
    /\ result.op = "disconnect" /\ result.ok /\ calls = <<>>
    /\ ~pmIsOpen
    /\ pmResult.op = "disconnect" /\ pmResult.ok /\ pmCalls = <<>>

(***************************************************************************)
(* C18: setPersistence with an invalid policy (unknown type, RDB without   *)
(* saveFrequency, AOF without appendfsync) raises INVALID_CONFIG, issues   *)
(* no configuration write and leaves save, appendonly and appendfsync as   *)
(* they were.                                                              *)
(***************************************************************************)
InvalidPolicy(cfg) ==
    \/ cfg.type \notin {"NONE", "RDB", "AOF"}
    \/ cfg.type = "RDB" /\ cfg.rdbOptions = "absent"
    \/ cfg.type = "AOF" /\ (~cfg.aofOptions \/ cfg.appendfsync = <<>>)

C18_InvalidRejected ==
    [][( /\ pmResult'.op = "setPersistence"
         /\ InvalidPolicy(pmResult'.config)
         /\ setPersistence(pmResult'.config) ) =>
            /\ ~pmResult'.ok
            /\ pmResult'.code = "INVALID_CONFIG"
            /\ pmResult'.message = "Invalid configuration"
            /\ pmCalls' = <<>>
            /\ redisConfig' = redisConfig]_vars

\* an RDB policy without saveFrequency was refused over a store with snapshots on
C18_Witness ==
    /\ pmResult.op = "setPersistence" /\ pmResult.code = "INVALID_CONFIG"
    /\ pmResult.config.type = "RDB" /\ pmResult.config.rdbOptions = "absent"
    /\ pmIsOpen /\ pmCalls = <<>>
    /\ redisConfig.save # <<>>

(***************************************************************************)
(* C19: for a policy that passes validation, setPersistence issues only    *)
(* configuration writes, in the order save ('<saveFrequency> 1' for RDB,   *)
(* '' otherwise), appendonly ('yes' for AOF, 'no' otherwise), appendfsync  *)
(* (the sync mode, for AOF only); a write is issued only when the one      *)
(* before it has succeeded, and when the call returns all of them were.    *)
(***************************************************************************)
ExpectedWrites(cfg) ==
    << [key |-> "save",
        value |-> IF cfg.type = "RDB"
                  THEN toString(cfg.saveFrequency) \o <<" ", "1">> ELSE <<>>],
       [key |-> "appendonly", value |-> IF cfg.type = "AOF" THEN yes ELSE no] >>
    \o ( IF cfg.type = "AOF"
         THEN << [key |-> "appendfsync", value |-> cfg.appendfsync] >>
         ELSE <<>> )

WritesOf(cs) == [i \in DOMAIN cs |-> [key |-> cs[i].key, value |-> cs[i].value]]

C19_WriteOrder ==
    [][( /\ pmResult'.op = "setPersistence"
         /\ validatePersistenceConfig(pmResult'.config) = {}
         /\ setPersistence(pmResult'.config) ) =>
            /\ \A i \in DOMAIN pmCalls' : pmCalls'[i].name = "configSet"
            /\ IsPrefix(WritesOf(pmCalls'), ExpectedWrites(pmResult'.config))
            /\ \A i \in DOMAIN pmCalls' : i < Len(pmCalls') => pmCalls'[i].ok
            /\ pmIsOpen => pmCalls' # <<>>
            /\ pmResult'.ok =>
                   /\ WritesOf(pmCalls') = ExpectedWrites(pmResult'.config)
                   /\ AllOk(pmCalls')
                   /\ \A i \in DOMAIN pmCalls' :
                          redisConfig'[pmCalls'[i].key] = pmCalls'[i].value]_vars

\* an AOF policy was applied with its three writes
C19_Witness ==
    /\ pmResult.op = "setPersistence" /\ pmResult.ok
    /\ pmResult.config.type = "AOF"
    /\ Len(pmCalls) = 3 /\ pmCalls[3].key = "appendfsync"
    /\ pmCalls[1].key = "save" /\ pmCalls[2].key = "appendonly"

(***************************************************************************)
(* C20: after setPersistence(P) has returned for a well-formed P (NONE;    *)
(* RDB with a positive saveFrequency; AOF with a sync mode of the enum),   *)
(* whatever the store held before, a getCurrentConfig that returns,        *)
(* returns exactly P.                                                      *)
(***************************************************************************)
WellFormedPolicy(cfg) ==
    \/ cfg = NONE
    \/ cfg = RDB(cfg.saveFrequency) /\ cfg.saveFrequency >= 1
    \/ cfg = AOF(cfg.appendfsync) /\ cfg.appendfsync \in AOFSyncOption

C20_RoundTrip ==
    [][( /\ pmResult.op = "setPersistence" /\ pmResult.ok
         /\ WellFormedPolicy(pmResult.config)
         /\ getCurrentConfig
         /\ pmResult'.ok ) =>
            pmResult'.config = pmResult.config]_vars

\* getCurrentConfig reported the 60-second RDB policy that setPersistence wrote
C20_Witness ==
    /\ pmResult.op = "getCurrentConfig" /\ pmResult.ok
    /\ pmResult.config = RDB(60)
    /\ config = RDB(60)
    /\ redisConfig.appendonly = no

(***************************************************************************)
(* C21: what getCurrentConfig returns is determined by the store's save,   *)
(* appendonly and appendfsync alone: RDB with the leading integer of save  *)
(* when save is non-empty, whatever appendonly is; else AOF with the       *)
(* current appendfsync when appendonly is 'yes'; else NONE.  The policy    *)
(* last handed to setPersistence plays no part.                            *)
(***************************************************************************)
\* n is the integer the text s starts with, up to its first space
LeadingInteger(s, n) ==
    LET t == toString(n)
    IN  /\ IsPrefix(t, s)
        /\ (Len(s) = Len(t) \/ s[Len(t) + 1] = " ")

C21_CurrentConfigPrecedence ==
    [][(getCurrentConfig /\ pmResult'.ok) =>
          LET got == pmResult'.config
          IN  /\ redisConfig.save # <<>> =>
                     /\ got = RDB(got.saveFrequency)
                     /\ LeadingInteger(redisConfig.save, got.saveFrequency)
              /\ (redisConfig.save = <<>> /\ redisConfig.appendonly = yes) =>
                     got = AOF(redisConfig.appendfsync)
              /\ (redisConfig.save = <<>> /\ redisConfig.appendonly # yes) =>
                     got = NONE]_vars

\* snapshots and append log both on, reported as RDB, the cached policy another
C21_Witness ==
    /\ pmResult.op = "getCurrentConfig" /\ pmResult.ok
    /\ pmResult.config.type = "RDB"
    /\ redisConfig.appendonly = yes
    /\ config.type # "RDB"

(***************************************************************************)
(* C22: when the most recent setPersistence returned, the store's save is  *)
(* non-empty exactly if its policy is RDB and appendonly is 'yes' exactly  *)
(* if its policy is AOF; so snapshots and append log are never both on and *)
(* nothing of an earlier policy stays enabled.                             *)
(***************************************************************************)
C22_FullReplacement ==
    (pmResult.op = "setPersistence" /\ pmResult.ok) =>
        /\ (redisConfig.save # <<>>) <=> (pmResult.config.type = "RDB")
        /\ (redisConfig.appendonly = yes) <=> (pmResult.config.type = "AOF")
        /\ ~(redisConfig.save # <<>> /\ redisConfig.appendonly = yes)

\* an AOF policy has replaced whatever was set: snapshots off, append log on
C22_Witness ==
    /\ pmResult.op = "setPersistence" /\ pmResult.ok
    /\ pmResult.config = AOF(always)
    /\ redisConfig = [save |-> <<>>, appendonly |-> yes, appendfsync |-> always]

(***************************************************************************)
(* C23: when a configuration write of setPersistence fails, setPersistence *)
(* raises PERSISTENCE_OPERATION_ERROR as it is, the failed write is the    *)
(* last call issued, and the writes before it stay applied while every     *)
(* other setting is as it was.                                             *)
(***************************************************************************)
C23_PartialWriteFailure ==
    [][( /\ pmResult'.op = "setPersistence"
         /\ setPersistence(pmResult'.config)
         /\ \E i \in DOMAIN pmCalls' : ~pmCalls'[i].ok ) =>
            /\ ~pmResult'.ok
            /\ pmResult'.code = "PERSISTENCE_OPERATION_ERROR"
            /\ pmResult'.message = "Persistence operation failed"
            /\ \A i \in DOMAIN pmCalls' : ~pmCalls'[i].ok <=> (i = Len(pmCalls'))
            /\ IsPrefix(WritesOf(pmCalls'), ExpectedWrites(pmResult'.config))
            /\ \A key \in {"save", "appendonly", "appendfsync"} :
                   IF \E i \in DOMAIN pmCalls' : pmCalls'[i].key = key /\ pmCalls'[i].ok
                   THEN \E i \in DOMAIN pmCalls' :
                            pmCalls'[i].key = key /\ redisConfig'[key] = pmCalls'[i].value
                   ELSE redisConfig'[key] = redisConfig[key]]_vars

\* the appendonly write of an RDB policy failed; its save write stays applied
C23_Witness ==
    /\ pmResult.op = "setPersistence" /\ pmResult.code = "PERSISTENCE_OPERATION_ERROR"
    /\ pmResult.config = RDB(60)
    /\ Len(pmCalls) = 2 /\ pmCalls[1].ok /\ ~pmCalls[2].ok
    /\ redisConfig.save = pmCalls[1].value /\ redisConfig.save # <<>>

(***************************************************************************)
(* C24: a policy with a zero or negative saveFrequency, or with a sync     *)
(* mode outside always / everysec / no, is rejected with INVALID_CONFIG    *)
(* before any write; so every save write of an RDB policy carries a        *)
(* positive saveFrequency and every appendfsync write one of the three     *)
(* sync modes.                                                             *)
(***************************************************************************)
OutOfDomain(cfg) ==
    \/ cfg.type = "RDB" /\ cfg.rdbOptions = "number" /\ cfg.saveFrequency <= 0
    \/ cfg.type = "AOF" /\ cfg.aofOptions /\ cfg.appendfsync \notin {always, everysec, no}

C24_WrittenValuesWellFormed ==
    [][( /\ pmResult'.op = "setPersistence"
         /\ setPersistence(pmResult'.config) ) =>
            /\ OutOfDomain(pmResult'.config) =>
                   (pmResult'.code = "INVALID_CONFIG" /\ pmCalls' = <<>>)
            /\ \A i \in DOMAIN pmCalls' :
                   /\ (pmCalls'[i].key = "save" /\ pmCalls'[i].value # <<>>) =>
                          \E n \in SaveFrequencies :
                              pmCalls'[i].value = toString(n) \o <<" ", "1">>
                   /\ pmCalls'[i].key = "appendfsync" =>
                          pmCalls'[i].value \in {always, everysec, no}]_vars

(***************************************************************************)
(* C30: beginTransaction from ACTIVE, and commitTransaction or             *)
(* rollbackTransaction from IDLE, issue none of multi, exec, discard and   *)
(* leave the envelope as it was.                                           *)
(***************************************************************************)
BatchCalls(cs) == { i \in DOMAIN cs : cs[i].name \in {"multi", "exec", "discard"} }

C30_InvalidTransitionNoEffect ==
    [][( \/ isTransactionActive /\ beginTransaction
         \/ ~isTransactionActive /\ commitTransaction
         \/ ~isTransactionActive /\ rollbackTransaction ) =>
            /\ ~result'.ok
            /\ BatchCalls(calls') = {}
            /\ UNCHANGED <<isTransactionActive, lastTransition, depth, store, isOpen>>]_vars

\* a commit was refused on an IDLE envelope that had been opened and closed before
C30_Witness ==
    /\ result.op = "commit" /\ ~result.ok
    /\ result.detail = "No active transaction to process"
    /\ ~isTransactionActive /\ lastTransition = "rollback"
    /\ calls = <<>>

(***************************************************************************)
(* C27: an error built by the registry has status 404 exactly when its     *)
(* code is ENTITY_NOT_FOUND, 400 exactly when its code is one of the       *)
(* validation codes INVALID_CONFIG, VALIDATION_ERROR, INVALID_PARAMETER,   *)
(* and 500 for every other code.                                           *)
(***************************************************************************)
ValidationCodes == { "INVALID_CONFIG", "VALIDATION_ERROR", "INVALID_PARAMETER" }

C27_StatusMapping ==
    lastError # NoError =>
        /\ lastError.statusCode = 404 <=> lastError.code = "ENTITY_NOT_FOUND"
        /\ lastError.statusCode = 400 <=> lastError.code \in ValidationCodes
        /\ lastError.code \notin ValidationCodes \cup {"ENTITY_NOT_FOUND"} =>
               lastError.statusCode = 500

C27_Witness ==
    /\ lastError.code = "ENTITY_NOT_FOUND"
    /\ lastError.statusCode = 404

(***************************************************************************)
(* C25: checkPersistenceStatus returns rdbSaveInProgress /                 *)
(* aofRewriteInProgress true exactly when the status text gives            *)
(* rdb_bgsave_in_progress / aof_rewrite_in_progress the value 1, and       *)
(* lastRdbSaveTime / lastAofRewriteTime equal to the integer the text      *)
(* gives rdb_last_save_time / aof_last_rewrite_time; a field the text      *)
(* lacks is reported as false or 0, and no error is raised for it.         *)
(***************************************************************************)
\* The digits that follow "name:" in the text; absent without such a place.
InfoField(text, name) ==
    LET at == { i \in DOMAIN text : text[i] = name /\ i < Len(text) /\ text[i + 1] = ":" }
    IN  IF at = {} THEN [present |-> FALSE, value |-> <<>>]
        ELSE LET i == CHOOSE i \in at : TRUE
                 run == CHOOSE k \in 0 .. (Len(text) - i - 1) :
                            /\ \A j \in 1 .. k : IsDigit(text[i + 1 + j])
                            /\ (i + 2 + k \in DOMAIN text) => ~IsDigit(text[i + 2 + k])
             IN  [present |-> TRUE, value |-> SubSeq(text, i + 2, i + 1 + run)]

StatusAgrees(text, status) ==
    LET flag(name, b) == b <=> (InfoField(text, name) = [present |-> TRUE, value |-> <<"1">>])
        time(name, t) ==
            /\ ~t.nan
            /\ IF InfoField(text, name).present
               THEN toString(t.n) = InfoField(text, name).value
               ELSE t.n = 0
    IN  /\ flag(StatusFields[1], status.rdbSaveInProgress)
        /\ flag(StatusFields[2], status.aofRewriteInProgress)
        /\ time(StatusFields[3], status.lastRdbSaveTime)
        /\ time(StatusFields[4], status.lastAofRewriteTime)

C25_StatusParsed ==
    (pmResult.op = "checkPersistenceStatus" /\ pmCalls # <<>> /\ pmCalls[1].ok) =>
        /\ pmResult.ok
        /\ StatusAgrees(pmCalls[1].value, pmStatus)

(***************************************************************************)
(* C26: no operation of either manager retries.  In the calls of one       *)
(* invocation a failed call is never followed by another call of the same  *)
(* primitive; it is the last call and the invocation raises an error of    *)
(* the taxonomy, except that a failed repository remove is followed by     *)
(* the one verification scan of remove.  An invocation issues at most one  *)
(* delete, one repository call of each kind and one write per              *)
(* configuration key, hence a bounded number of calls.  (The three reads   *)
(* of getCurrentConfig are issued together, before any of them is known    *)
(* to have failed.)                                                        *)
(***************************************************************************)
NoRetryTransactionManager ==
    /\ \A i \in DOMAIN calls : ~calls[i].ok =>
           /\ \A j \in (i + 1) .. Len(calls) : calls[j].name # calls[i].name
           /\ IF calls[i].name = "repository.remove"
              THEN Len(calls) = i + 1 /\ calls[i + 1].name = "keys"
              ELSE i = Len(calls) /\ ~result.ok /\ result.code \in ErrorCodes
    /\ \A name \in {"del", "repository.fetch", "repository.save", "repository.remove"} :
           Count(calls, name) <= 1
    /\ \A name \in {"multi", "exec", "discard", "quit"} : Count(calls, name) <= 1
    /\ Count(calls, "ping") <= 2
    /\ Count(calls, "keys") <= 3

NoRetryPersistenceManager ==
    /\ \A i \in DOMAIN pmCalls : ~pmCalls[i].ok =>
           /\ ~pmResult.ok /\ pmResult.code \in ErrorCodes
           /\ pmCalls[i].name # "configGet" => i = Len(pmCalls)
    /\ \A i, j \in DOMAIN pmCalls :
           (i # j /\ pmCalls[i].name = pmCalls[j].name) => pmCalls[i].key # pmCalls[j].key
    /\ Len(pmCalls) <= Len(ConfigKeys)

C26_NoRetry == NoRetryTransactionManager /\ NoRetryPersistenceManager

C26_Witness ==
    \E i \in DOMAIN calls :
        /\ calls[i].name = "repository.remove"
        /\ ~calls[i].ok
        /\ Len(calls) = i + 1
        /\ result.ok

(***************************************************************************)
(* C28: the connection status of the EnhancedRedisClient is false          *)
(* initially, becomes true exactly when a connect() succeeds and false     *)
(* exactly when a disconnect() succeeds; a connect() that fails leaves it  *)
(* false and a disconnect() that fails leaves it true, each raising        *)
(* REDIS_CONNECTION_ERROR.                                                 *)
(***************************************************************************)
C28_ConnectionStatus ==
    [][/\ (connect /\ clientResult'.ok) => clientIsConnected'
       /\ (clientDisconnect /\ clientResult'.ok) => ~clientIsConnected'
       /\ (clientIsConnected' # clientIsConnected) =>
              \/ connect /\ clientResult'.ok
              \/ clientDisconnect /\ clientResult'.ok
       /\ (connect /\ ~clientResult'.ok) =>
              ~clientIsConnected' /\ clientResult'.code = "REDIS_CONNECTION_ERROR"
       /\ (clientDisconnect /\ ~clientResult'.ok) =>
              clientIsConnected' /\ clientResult'.code = "REDIS_CONNECTION_ERROR"]_vars

(***************************************************************************)
(* C28 as it holds: the status is false initially; a connect() that        *)
(* succeeds leaves it true, a disconnect() that succeeds leaves it false,  *)
(* and nothing else changes it; a connect() or disconnect() that fails     *)
(* leaves it as it was and raises REDIS_CONNECTION_ERROR.                  *)
(***************************************************************************)
C28_StatusFollowsSuccess ==
    [][/\ (connect /\ clientResult'.ok) => clientIsConnected'
       /\ (clientDisconnect /\ clientResult'.ok) => ~clientIsConnected'
       /\ (connect /\ ~clientResult'.ok) =>
              /\ clientIsConnected' = clientIsConnected
              /\ clientResult'.code = "REDIS_CONNECTION_ERROR"
       /\ (clientDisconnect /\ ~clientResult'.ok) =>
              /\ clientIsConnected' = clientIsConnected
              /\ clientResult'.code = "REDIS_CONNECTION_ERROR"
       /\ (clientIsConnected' # clientIsConnected) =>
              \/ connect /\ clientResult'.ok
              \/ clientDisconnect /\ clientResult'.ok]_vars

C28_Witness ==
    /\ clientResult.op = "disconnect"
    /\ ~clientResult.ok
    /\ clientIsConnected

(***************************************************************************)
(* C29: while the EnhancedRedisClient is not connected, ping() returns     *)
(* false, getServerInfo() and flushDb() raise REDIS_OPERATION_ERROR with   *)
(* status 500, and none of them issues a transport command.                *)
(***************************************************************************)
C29_NotConnectedOperations ==
    [][~clientIsConnected =>
          /\ ping => (clientResult'.ok /\ ~clientResult'.ret /\ clientCalls' = <<>>)
          /\ (getServerInfo \/ flushDb) =>
                 /\ ~clientResult'.ok
                 /\ clientResult'.code = "REDIS_OPERATION_ERROR"
                 /\ clientResult'.statusCode = 500
                 /\ clientCalls' = <<>>]_vars

C29_Witness ==
    /\ ~clientIsConnected
    /\ clientResult.op = "flushDb"
    /\ clientResult.code = "REDIS_OPERATION_ERROR"
    /\ clientResult.statusCode = 500
    /\ clientCalls = <<>>
    /\ clientOpen

(***************************************************************************)
(* C31: when the transport is not open, or a connectivity ping fails,      *)
(* save, fetch, remove and beginTransaction raise TRANSACTION_ERROR; the   *)
(* call issues nothing but pings (no repository call, no scan, no delete,  *)
(* no multi) and leaves the envelope flag and the key space as they were.  *)
(***************************************************************************)
PingFailed(cs) == \E i \in DOMAIN cs : cs[i].name = "ping" /\ ~cs[i].ok

\* A call that found no connection: it issued nothing (transport not open)
\* or one of its pings failed.
C31_NotConnectedNoEffect ==
    [][( /\ result'.op \in {"save", "fetch", "remove", "begin"}
         /\ (calls' = <<>> \/ PingFailed(calls')) ) =>
           /\ ~result'.ok
           /\ result'.code = "TRANSACTION_ERROR"
           /\ \A i \in DOMAIN calls' : calls'[i].name = "ping"
           /\ UNCHANGED <<isTransactionActive, store, lastTransition, depth>>]_vars

C31_Witness ==
    /\ result.op = "remove"
    /\ result.code = "TRANSACTION_ERROR"
    /\ Len(calls) = 2
    /\ calls[1].ok /\ ~calls[2].ok
    /\ isTransactionActive
    /\ \E k \in AllKeys : store[k] # 0

(***************************************************************************)
(* C34: a failed exec makes commitTransaction raise                        *)
(* TRANSACTION_COMMIT_ERROR with the envelope still ACTIVE, so that the    *)
(* rollbackTransaction that follows it reaches discard and, when discard   *)
(* returns, leaves the envelope IDLE; a failed discard makes               *)
(* rollbackTransaction raise TRANSACTION_ROLLBACK_ERROR with the envelope  *)
(* still ACTIVE.                                                           *)
(***************************************************************************)
ExecFailed == <<Call("exec", NoId, {}, FALSE)>>

DiscardFailed == <<Call("discard", NoId, {}, FALSE)>>

C34_FailedCommitStaysActive ==
    [][/\ (commitTransaction /\ calls' = ExecFailed) =>
              /\ result'.code = "TRANSACTION_COMMIT_ERROR"
              /\ isTransactionActive'
       /\ (rollbackTransaction /\ calls' = DiscardFailed) =>
              /\ result'.code = "TRANSACTION_ROLLBACK_ERROR"
              /\ isTransactionActive'
       /\ (result.op = "commit" /\ calls = ExecFailed /\ rollbackTransaction) =>
              /\ Len(calls') = 1 /\ calls'[1].name = "discard"
              /\ calls'[1].ok => (result'.ok /\ ~isTransactionActive')]_vars

\* the commit has failed and the envelope is still there to roll back
C34_Witness ==
    /\ result.op = "commit"
    /\ result.code = "TRANSACTION_COMMIT_ERROR"
    /\ calls = ExecFailed
    /\ isTransactionActive

(***************************************************************************)
(* C35: remove(id) changes no key of another entity: every other id keeps  *)
(* its key and its stored version, also an id of which the removed id is a *)
(* proper prefix.                                                          *)
(***************************************************************************)
C35_RemoveOnlyOwnKeys ==
    [][(result'.op = "remove" /\ remove(result'.id)) =>
          \A other \in Ids \ {result'.id} : store'[Key(other)] = store[Key(other)]]_vars

(***************************************************************************)
(* C36: the entity operations and the envelope are independent.  save,     *)
(* fetch and remove leave the envelope state as it was and invoke none of  *)
(* multi, exec and discard; beginTransaction, commitTransaction and        *)
(* rollbackTransaction issue nothing but the connectivity probe and the    *)
(* batch primitives (no repository call, no key scan, no delete) and leave *)
(* the store as it was.                                                    *)
(***************************************************************************)
EnvelopePrimitives == {"ping", "multi", "exec", "discard"}

C36_EntityAndEnvelopeIndependent ==
    [][/\ result'.op \in {"save", "fetch", "remove"} =>
              /\ UNCHANGED <<isTransactionActive, lastTransition, depth>>
              /\ BatchCalls(calls') = {}
       /\ result'.op \in {"begin", "commit", "rollback"} =>
              /\ \A i \in DOMAIN calls' : calls'[i].name \in EnvelopePrimitives
              /\ UNCHANGED store]_vars

\* a save that succeeded inside an open envelope, which is still open
C36_Witness ==
    /\ result.op = "save" /\ result.ok
    /\ isTransactionActive
    /\ \E i \in DOMAIN calls : calls[i].name = "repository.save"

(***************************************************************************)
(* C37: when the implicit rollback inside disconnect fails (discard        *)
(* raises), disconnect raises REDIS_CONNECTION_ERROR and issues no quit:   *)
(* the transport is as open as it was, the envelope is still ACTIVE, and a *)
(* later disconnect issues discard again.                                  *)
(***************************************************************************)
C37_FailedImplicitRollback ==
    [][/\ (isTransactionActive /\ disconnect /\ ~calls'[1].ok) =>
              /\ calls' = DiscardFailed
              /\ ~result'.ok /\ result'.code = "REDIS_CONNECTION_ERROR"
              /\ isTransactionActive'
              /\ isOpen' = isOpen
       /\ (result.op = "disconnect" /\ calls = DiscardFailed /\ disconnect) =>
              /\ calls' # <<>> /\ calls'[1].name = "discard"]_vars

\* a disconnect whose implicit rollback failed left an open transport
C37_Witness ==
    /\ result.op = "disconnect" /\ result.code = "REDIS_CONNECTION_ERROR"
    /\ calls = DiscardFailed
    /\ isTransactionActive /\ isOpen

Finished(c) == ~pending[c].awaiting /\ pending[c].todo = <<>>

Pinged(cs) == Cardinality({ i \in DOMAIN cs : cs[i].name = "ping" })

C32_OneBeginWins ==
    /\ \A i, j \in DOMAIN calls :
           (i < j /\ calls[i].name = "multi" /\ calls[i].ok) => calls[j].name # "multi"
    /\ isTransactionActive <=> (\E c \in Callers : Finished(c) /\ pending[c].res.ok)
    /\ (\A c \in Callers : Finished(c)) =>
           /\ \E c \in Callers : ~pending[c].res.ok
           /\ \A c \in Callers :
                  ~pending[c].res.ok => pending[c].res.code = "TRANSACTION_ERROR"
           /\ (Pinged(calls) = Cardinality(Callers) /\ AllOk(calls)) =>
                  /\ isTransactionActive
                  /\ Begun(calls) = 1
                  /\ \E c \in Callers :
                         pending[c].res.detail = "A transaction is already in progress"

\* both calls were in flight together; one returned and the other was refused
C32_Witness ==
    /\ CallNames(calls) = <<"ping", "ping", "multi">>
    /\ \A c \in Callers : Finished(c)
    /\ isTransactionActive
    /\ \E c, d \in Callers :
           /\ pending[c].res.ok
           /\ pending[d].res.detail = "A transaction is already in progress"

(***************************************************************************)
(* C33: however commit and rollback calls on one ACTIVE envelope overlap,  *)
(* at most one exec or discard in total is carried out for each envelope   *)
(* that was begun, and a commit or rollback that completes after a later   *)
(* envelope was begun does not set that later envelope IDLE.               *)
(***************************************************************************)
\* the exec and discard calls that returned for the envelope begun by calls[i]
Closings(cs, i) ==
    { j \in DOMAIN cs :
        /\ j > i
        /\ cs[j].name \in {"exec", "discard"} /\ cs[j].ok
        /\ \A k \in DOMAIN cs : (i < k /\ k < j) => ~(cs[k].name = "multi" /\ cs[k].ok) }

ClosedOnce(cs) ==
    \A i \in DOMAIN cs :
        (cs[i].name = "multi" /\ cs[i].ok) => Cardinality(Closings(cs, i)) <= 1

C33_CommitRollbackExclusive ==
    [][/\ ClosedOnce(calls')
       /\ \A c \in Callers :
              ( /\ commitTransactionResume(c) \/ rollbackTransactionResume(c)
                /\ isTransactionActive
                /\ Begun(calls) > pending[c].since ) => isTransactionActive']_vars

(***************************************************************************)
(* C38: a getCurrentConfig issued while one setPersistence(Pnew) is in     *)
(* flight, on a store that a completed setPersistence(Pold) configured and *)
(* with no transport call failing, returns Pold or Pnew.  What the call    *)
(* returns is the policy derived from the settings its three reads see.    *)
(***************************************************************************)
C38_ReadSeesOldOrNew ==
    [][\A c, d \in Callers :
          ( /\ getCurrentConfigCall(c)
            /\ PMInFlight(d, "setPersistence")
            /\ pmPending[d].res.op = "setPersistence" /\ pmPending[d].res.ok
            /\ AllOk(pmCalls') ) =>
                currentConfig(pmPending'[c].seen)
                    \in {pmPending[d].res.config, pmPending[d].cfg}]_vars

(***************************************************************************)
(* C39: when two setPersistence calls with valid policies overlapped, no   *)
(* transport call failed and both have returned, getCurrentConfig reports  *)
(* exactly the policy of the call that started last, the policy held in    *)
(* this.config, and never a mixture of the two.                            *)
(***************************************************************************)
C39_LastStartedPolicyWins ==
    [][\A c \in Callers :
          ( /\ getCurrentConfigCall(c)
            /\ \A d \in Callers : ~pmPending[d].awaiting
            /\ \A d \in Callers \ {c} : pmPending[d].todo = <<>>
            /\ AllOk(pmCalls') ) =>
                /\ currentConfig(pmPending'[c].seen) = config
                /\ \E d \in Callers : pmPending[d].res.config = config]_vars

\* both calls issued their first write before either issued its second; the
\* read that followed them reports the later policy, which is not a's
C39_Witness ==
    /\ Len(pmCalls) >= 2 /\ pmCalls[1].key = "save" /\ pmCalls[2].key = "save"
    /\ AllOk(pmCalls)
    /\ \A c \in Callers : ~pmPending[c].awaiting /\ pmPending[c].todo = <<>>
    /\ pmPending["b"].res.op = "getCurrentConfig" /\ pmPending["b"].res.ok
    /\ pmPending["b"].res.config = config
    /\ pmPending["a"].res.ok /\ pmPending["a"].res.config # config
    /\ pmPending["a"].res.config.type # "NONE" /\ config.type # "NONE"

=============================================================================
